---------------------------- MODULE Spec2Model ----------------------------
(***************************************************************************)
(* A model of the Lucid-key identification application: the archive parser *)
(* (LucidKeyParser) and the candidate-matching computation of App.         *)
(*                                                                         *)
(* Strings that the code parses are sequences of one-character strings, so *)
(* that parseFloat is computed and not assumed.  Numbers are records       *)
(* [nan, v] so that NaN and its comparisons are modelled.                  *)
(***************************************************************************)
EXTENDS Integers, Sequences, FiniteSets, TLC

(***************************************************************************)
(* Bounds of the model.                                                    *)
(***************************************************************************)
\* number of entity_item nodes of the entity tree documents (tree specification)
MaxNodes == 4
\* largest number the user types into a numeric input (score specification)
MaxUserNum == 4
\* calls of handleFileSelect in flight at once (application specification)
MaxLoads == 2
\* number of feature_node elements of the feature tree documents (build
\* specification)
MaxFeatureNodes == 3

\* the calls of sendMessage of a session
MaxRequests == 2

\* longest search term typed into a panel
MaxTermLen == 2

(***************************************************************************)
(* JavaScript values.                                                      *)
(***************************************************************************)
NaN == [nan |-> TRUE, v |-> 0]

Number(n) == [nan |-> FALSE, v |-> n]

\* a < b on JavaScript numbers: false as soon as one side is NaN
Lt(a, b) == ~a.nan /\ ~b.nan /\ a.v < b.v

\* a > b on JavaScript numbers
Gt(a, b) == ~a.nan /\ ~b.nan /\ a.v > b.v

isNaN(a) == a.nan

DigitChars == <<"0", "1", "2", "3", "4", "5", "6", "7", "8", "9">>

IsDigit(c) == \E d \in 1..10 : DigitChars[d] = c

DigitVal(c) == (CHOOSE d \in 1..10 : DigitChars[d] = c) - 1

\* the maximal run of decimal digits of s from position i on: [len, v]
RECURSIVE DigitRun(_, _, _, _)
DigitRun(s, i, len, acc) ==
    IF i <= Len(s) /\ IsDigit(s[i])
    THEN DigitRun(s, i + 1, len + 1, acc * 10 + DigitVal(s[i]))
    ELSE [len |-> len, v |-> acc]

\* the first position of s that holds no blank
RECURSIVE SkipBlanks(_, _)
SkipBlanks(s, i) ==
    IF i <= Len(s) /\ s[i] = " " THEN SkipBlanks(s, i + 1) ELSE i

\* parseFloat on strings over digits, sign, blank and letters: leading blanks
\* are skipped, then an optional sign and the longest digit prefix are read;
\* what follows is ignored; no digit gives NaN.
parseFloat(s) ==
    LET b == SkipBlanks(s, 1)
        signed == b <= Len(s) /\ s[b] \in {"-", "+"}
        neg == b <= Len(s) /\ s[b] = "-"
        run == DigitRun(s, IF signed THEN b + 1 ELSE b, 0, 0)
    IN IF run.len = 0 THEN NaN ELSE Number(IF neg THEN 0 - run.v ELSE run.v)

\* the decimal digits of a natural number
RECURSIVE NatDigits(_)
NatDigits(n) ==
    IF n < 10 THEN <<DigitChars[n + 1]>>
    ELSE NatDigits(n \div 10) \o <<DigitChars[(n % 10) + 1]>>

\* what an <input type="number"> holds after the user typed the integer n
NumText(n) == IF n < 0 THEN <<"-">> \o NatDigits(0 - n) ELSE NatDigits(n)

\* String(value) of a ChosenFeature value: a boolean or a string
String(value) ==
    IF value.isBool
    THEN (IF value.b THEN <<"t", "r", "u", "e">> ELSE <<"f", "a", "l", "s", "e">>)
    ELSE value.s

BoolValue(b) == [isBool |-> TRUE, b |-> b, s |-> <<>>]

StrValue(s) == [isBool |-> FALSE, b |-> FALSE, s |-> s]

\* JavaScript truthiness of a string | boolean value
Truthy(value) == IF value.isBool THEN value.b ELSE value.s # <<>>


(***************************************************************************)
(* Documents.  key.data is a record                                        *)
(*   [entity_tree : sequence of tree elements [parent, item_id, item_name],*)
(*    features    : sequence of feature_item / state_item elements,        *)
(*    media       : sequence of media_item elements]                       *)
(* where parent is the position of the enclosing tree element (0: a child  *)
(* of <entity_tree>) and an item_id of "" is a missing attribute or item.  *)
(* normal.sco is a sequence of scoring_item elements                       *)
(*   [section, item_id, scored : sequence of scored_item elements].        *)
(* An optional value (T | null) is a sequence of at most one element.      *)
(***************************************************************************)
Some(x) == <<x>>

None == <<>>

\* the empty Map
EmptyMap == [k \in {} |-> 0]

\* map.set(k, v)
MapSet(map, k, v) == [x \in DOMAIN map \cup {k} |-> IF x = k THEN v ELSE map[x]]

\* the child elements of tree element k (0: of the tree's root) from position
\* i on, in document order
RECURSIVE ChildElementsFrom(_, _, _)
ChildElementsFrom(tree, k, i) ==
    IF i > Len(tree) THEN <<>>
    ELSE (IF tree[i].parent = k THEN <<i>> ELSE <<>>) \o ChildElementsFrom(tree, k, i + 1)

ChildElements(tree, k) == ChildElementsFrom(tree, k, 1)

\* lines 131-139: every entity_item with an item_id makes a catalog entry
allEntitiesOf(keyDoc) ==
    LET ids == {keyDoc.entity_tree[i].item_id : i \in DOMAIN keyDoc.entity_tree} \ {""}
        \* Map.set: the last element with an id wins
        last(id) == CHOOSE i \in DOMAIN keyDoc.entity_tree :
                       /\ keyDoc.entity_tree[i].item_id = id
                       /\ \A j \in DOMAIN keyDoc.entity_tree :
                            keyDoc.entity_tree[j].item_id = id => j <= i
    IN [id \in ids |->
          [id |-> id,
           name |-> IF keyDoc.entity_tree[last(id)].item_name = ""
                    THEN "Unknown Entity"
                    ELSE keyDoc.entity_tree[last(id)].item_name]]

\* lines 141-159: the feature catalog; text features are dropped
allFeaturesOf(keyDoc) ==
    LET isState(el) == el.tag = "state_item"
        type(el) == IF isState(el) THEN "state" ELSE el.score_type
        kept == {i \in DOMAIN keyDoc.features :
                    type(keyDoc.features[i]) # "text" /\ keyDoc.features[i].item_id # ""}
        ids == {keyDoc.features[i].item_id : i \in kept}
        last(id) == CHOOSE i \in kept :
                       /\ keyDoc.features[i].item_id = id
                       /\ \A j \in kept : keyDoc.features[j].item_id = id => j <= i
    IN [id \in ids |->
          [id |-> id,
           name |-> IF keyDoc.features[last(id)].item_name = ""
                    THEN "Unknown Feature"
                    ELSE keyDoc.features[last(id)].item_name,
           type |-> type(keyDoc.features[last(id)]),
           isState |-> isState(keyDoc.features[last(id)])]]

\* buildEntityNode on tree element k: null (<<>>) or one EntityNode
RECURSIVE buildEntityNode(_, _, _)
RECURSIVE buildEntityNodes(_, _, _)
buildEntityNode(tree, k, allEntities) ==
    LET id == tree[k].item_id IN
    IF id = "" THEN None
    ELSE IF id \notin DOMAIN allEntities THEN None
    ELSE LET children == buildEntityNodes(tree, ChildElements(tree, k), allEntities)
         IN Some([id |-> id, name |-> allEntities[id].name,
                  children |-> children, isGroup |-> Len(children) > 0])

\* Array.from(container.children).map(buildEntityNode).filter(non-null)
buildEntityNodes(tree, elements, allEntities) ==
    IF elements = <<>> THEN <<>>
    ELSE buildEntityNode(tree, Head(elements), allEntities)
           \o buildEntityNodes(tree, Tail(elements), allEntities)

\* lines 168-173
entityTreeOf(keyDoc, allEntities) ==
    buildEntityNodes(keyDoc.entity_tree, ChildElements(keyDoc.entity_tree, 0), allEntities)

\* buildFeatureNode on tree element k: null (<<>>) or one FeatureNode.  An
\* element without an item element has item_id "".
RECURSIVE buildFeatureNodes(_, _, _)

\* buildFeatureNode handing the children of a dropped element to its parent
buildFeatureNode_orphans(tree, k, allFeatures) ==
    LET id == tree[k].item_id
        children == buildFeatureNodes(tree, ChildElements(tree, k), allFeatures)
    IN IF id = "" \/ id \notin DOMAIN allFeatures THEN children
       ELSE Some([id |-> id, name |-> allFeatures[id].name, type |-> allFeatures[id].type,
                  isState |-> allFeatures[id].isState, children |-> children])

\* lines 181-196
buildFeatureNode(tree, k, allFeatures) ==
    LET id == tree[k].item_id IN
    IF id = "" THEN None
    ELSE IF id \notin DOMAIN allFeatures THEN None
    ELSE LET feature == allFeatures[id]
             children == buildFeatureNodes(tree, ChildElements(tree, k), allFeatures)
         IN Some([id |-> id, name |-> feature.name, type |-> feature.type,
                  isState |-> feature.isState, children |-> children])

\* Array.from(container.children).map(buildFeatureNode).filter(non-null)
buildFeatureNodes(tree, elements, allFeatures) ==
    IF elements = <<>> THEN <<>>
    ELSE buildFeatureNode(tree, Head(elements), allFeatures)
           \o buildFeatureNodes(tree, Tail(elements), allFeatures)

\* lines 161-166
featureTreeOf(keyDoc, allFeatures) ==
    buildFeatureNodes(keyDoc.feature_tree, ChildElements(keyDoc.feature_tree, 0), allFeatures)

\* countAvailableFeatures counting a grouping node as well as what is below it
RECURSIVE countAvailableFeatures_groups(_)
countAvailableFeatures_groups(nodes) ==
    IF nodes = <<>> THEN 0
    ELSE LET node == Head(nodes)
             here == IF node.type = "numeric" THEN 1
                     ELSE IF Len(node.children) > 0 /\ node.children[1].isState THEN 1
                     ELSE IF Len(node.children) > 0
                     THEN 1 + countAvailableFeatures_groups(node.children)
                     ELSE 0
         IN here + countAvailableFeatures_groups(Tail(nodes))

\* lines 213-232
RECURSIVE countAvailableFeatures(_)
countAvailableFeatures(nodes) ==
    IF nodes = <<>> THEN 0
    ELSE LET node == Head(nodes)
             here == IF node.type = "numeric" THEN 1
                     ELSE IF Len(node.children) > 0 /\ node.children[1].isState THEN 1
                     ELSE IF Len(node.children) > 0
                     THEN countAvailableFeatures(node.children)
                     ELSE 0
         IN here + countAvailableFeatures(Tail(nodes))

(***************************************************************************)
(* processScores: the score table from normal.sco                          *)
(***************************************************************************)
\* keyData.entityScores.get(entityId)?.set(featureId, score)
setScore(entityScores, entityId, featureId, score) ==
    IF entityId \in DOMAIN entityScores
    THEN [entityScores EXCEPT ![entityId] = MapSet(@, featureId, score)]
    ELSE entityScores

\* getAttribute(name) || '0'
attrOrZero(attr) == IF attr = <<>> THEN <<"0">> ELSE attr

\* lines 261-273 and 282-297: one scored_item of a scoring_item
scoredItem(entityScores, section, featureId, sci) ==
    IF section = "normal"
    THEN IF sci.item_id # "" /\ sci.value # ""
         THEN setScore(entityScores, sci.item_id, featureId, [value |-> sci.value])
         ELSE entityScores
    ELSE IF sci.hasData /\ sci.item_id # ""
         THEN setScore(entityScores, sci.item_id, featureId,
                       [min |-> parseFloat(attrOrZero(sci.omin)),
                        max |-> parseFloat(attrOrZero(sci.omax))])
         ELSE entityScores

RECURSIVE scoredItems(_, _, _, _)
scoredItems(entityScores, section, featureId, scored) ==
    IF scored = <<>> THEN entityScores
    ELSE scoredItems(scoredItem(entityScores, section, featureId, Head(scored)),
                     section, featureId, Tail(scored))

\* the scoring_item elements of one section, in document order
RECURSIVE scoringItems(_, _, _, _)
scoringItems(entityScores, allFeatures, section, doc) ==
    IF doc = <<>> THEN entityScores
    ELSE LET si == Head(doc)
             skip == \/ si.section # section
                     \/ si.item_id = ""
                     \/ si.item_id \notin DOMAIN allFeatures
         IN scoringItems(IF skip THEN entityScores
                         ELSE scoredItems(entityScores, section, si.item_id, si.scored),
                         allFeatures, section, Tail(doc))

\* lines 244-298: normal_score_data first, numeric_score_data second
scoresOf(entityScores, allFeatures, scoDoc) ==
    scoringItems(scoringItems(entityScores, allFeatures, "normal", scoDoc),
                 allFeatures, "numeric", scoDoc)

(***************************************************************************)
(* The match computation of App (useMemo).  chosenFeatures is a Map: a     *)
(* sequence of entries [id, value] in insertion order.                     *)
(***************************************************************************)
Null == [null |-> TRUE]

Undefined == "undefined"

\* (score as StateScore).value
ScoreValue(score) == IF "value" \in DOMAIN score THEN score.value ELSE Undefined

\* (score as NumericScore).min: undefined compares as NaN
ScoreMin(score) == IF "min" \in DOMAIN score THEN score.min ELSE NaN

ScoreMax(score) == IF "max" \in DOMAIN score THEN score.max ELSE NaN

\* isMismatch with the uncertain code "3" taken for a mismatch too
isMismatch_uncertain(kd, entityId, featureId, choice) ==
    LET feature == kd.allFeatures[featureId]
        scores == kd.entityScores[entityId]
        v == parseFloat(String(choice.value))
    IN IF featureId \notin DOMAIN scores THEN TRUE
       ELSE \/ feature.type = "state" /\ ScoreValue(scores[featureId]) \in {"0", "3"}
            \/ /\ feature.type = "numeric"
               /\ \/ isNaN(v)
                  \/ Lt(v, ScoreMin(scores[featureId]))
                  \/ Gt(v, ScoreMax(scores[featureId]))

\* isMismatch with the interval open at min (<= for <)
isMismatch_openAtMin(kd, entityId, featureId, choice) ==
    LET feature == kd.allFeatures[featureId]
        scores == kd.entityScores[entityId]
        v == parseFloat(String(choice.value))
    IN IF featureId \notin DOMAIN scores THEN TRUE
       ELSE \/ feature.type = "state" /\ ScoreValue(scores[featureId]) = "0"
            \/ /\ feature.type = "numeric"
               /\ \/ isNaN(v)
                  \/ ~Gt(v, ScoreMin(scores[featureId]))
                  \/ Gt(v, ScoreMax(scores[featureId]))

\* lines 232-241, for a featureId of the catalog
isMismatch(kd, entityId, featureId, choice) ==
    LET feature == kd.allFeatures[featureId]
        scores == kd.entityScores[entityId]
        v == parseFloat(String(choice.value))
    IN IF featureId \notin DOMAIN scores THEN TRUE
       ELSE \/ feature.type = "state" /\ ScoreValue(scores[featureId]) = "0"
            \/ /\ feature.type = "numeric"
               /\ \/ isNaN(v)
                  \/ Lt(v, ScoreMin(scores[featureId]))
                  \/ Gt(v, ScoreMax(scores[featureId]))

\* entityDiscarded with the break outside the if: only the first chosen entry
\* of the catalog is tested
RECURSIVE entityDiscarded_breakAlways(_, _, _)
entityDiscarded_breakAlways(kd, entityId, entries) ==
    IF entries = <<>> THEN FALSE
    ELSE IF Head(entries).id \notin DOMAIN kd.allFeatures
         THEN entityDiscarded_breakAlways(kd, entityId, Tail(entries))
         ELSE LET featureId == Head(entries).id
                  scores == kd.entityScores[entityId]
                  v == parseFloat(String(Head(entries).value))
              IN IF featureId \notin DOMAIN scores THEN TRUE
                 ELSE \/ /\ kd.allFeatures[featureId].type = "state"
                         /\ ScoreValue(scores[featureId]) = "0"
                      \/ /\ kd.allFeatures[featureId].type = "numeric"
                         /\ \/ isNaN(v)
                            \/ Lt(v, ScoreMin(scores[featureId]))
                            \/ Gt(v, ScoreMax(scores[featureId]))

\* entityDiscarded with the verdict overwritten by each entry of the catalog:
\* the last one decides
RECURSIVE entityDiscarded_lastDecides(_, _, _)
entityDiscarded_lastDecides(kd, entityId, entries) ==
    IF entries = <<>> THEN FALSE
    ELSE LET last == entries[Len(entries)] IN
         IF last.id \notin DOMAIN kd.allFeatures
         THEN entityDiscarded_lastDecides(kd, entityId, SubSeq(entries, 1, Len(entries) - 1))
         ELSE isMismatch(kd, entityId, last.id, last)

\* lines 228-248: the loop over the chosen entries of one entity; TRUE when
\* the entity is added to directlyDiscarded (and the loop left)
RECURSIVE entityDiscarded(_, _, _)
entityDiscarded(kd, entityId, entries) ==
    IF entries = <<>> THEN FALSE
    ELSE IF Head(entries).id \notin DOMAIN kd.allFeatures
         THEN entityDiscarded(kd, entityId, Tail(entries))
         ELSE IF isMismatch(kd, entityId, Head(entries).id, Head(entries))
              THEN TRUE
              ELSE entityDiscarded(kd, entityId, Tail(entries))

\* buildIndirectHierarchy taking any group with children, matching or not
RECURSIVE buildIndirectHierarchy_anyChild(_, _)
buildIndirectHierarchy_anyChild(nodes, st) ==
    IF nodes = <<>> THEN st
    ELSE LET node == Head(nodes)
         IN buildIndirectHierarchy_anyChild(Tail(nodes),
               IF node.isGroup /\ node.id \notin st.remainingIds /\ Len(node.children) > 0
               THEN [indirectMatches |-> st.indirectMatches \cup {node.id},
                     remainingIds |-> st.remainingIds \cup {node.id},
                     changedInLoop |-> TRUE]
               ELSE st)

\* lines 258-271: one pass over nodes; st = [indirectMatches, remainingIds,
\* changedInLoop]
RECURSIVE buildIndirectHierarchy(_, _)
buildIndirectHierarchy(nodes, st) ==
    IF nodes = <<>> THEN st
    ELSE LET node == Head(nodes)
             hasMatchingChild ==
                 \E i \in DOMAIN node.children : node.children[i].id \in st.remainingIds
         IN buildIndirectHierarchy(Tail(nodes),
               IF node.isGroup /\ node.id \notin st.remainingIds /\ hasMatchingChild
               THEN [indirectMatches |-> st.indirectMatches \cup {node.id},
                     remainingIds |-> st.remainingIds \cup {node.id},
                     changedInLoop |-> TRUE]
               ELSE st)

\* line 274: while (buildIndirectHierarchy(keyData.entityTree));
RECURSIVE indirectLoop(_, _)
indirectLoop(entityTree, st) ==
    LET pass == buildIndirectHierarchy(entityTree, [st EXCEPT !.changedInLoop = FALSE])
    IN IF pass.changedInLoop THEN indirectLoop(entityTree, pass) ELSE pass

\* the loop of line 274 making one more pass after the pass that changed nothing
RECURSIVE indirectPasses_extraPass(_, _)
indirectPasses_extraPass(entityTree, st) ==
    LET pass == buildIndirectHierarchy(entityTree, [st EXCEPT !.changedInLoop = FALSE])
    IN IF pass.changedInLoop THEN <<pass>> \o indirectPasses_extraPass(entityTree, pass)
       ELSE <<pass, buildIndirectHierarchy(entityTree, pass)>>

\* line 274: the state after each pass of the loop, in order
RECURSIVE indirectPasses(_, _)
indirectPasses(entityTree, st) ==
    LET pass == buildIndirectHierarchy(entityTree, [st EXCEPT !.changedInLoop = FALSE])
    IN IF pass.changedInLoop THEN <<pass>> \o indirectPasses(entityTree, pass)
       ELSE <<pass>>

NoMatches ==
    [directMatches |-> {}, indirectMatches |-> {},
     discardedEntityIds |-> {}, directlyDiscarded |-> {}]

\* the early return giving the empty result of the no-key branch
noFeaturesChosen_empty(allEntityIds) == NoMatches

\* line 278 with the negation lost
discardedOf_kept(allEntityIds, remainingIds) == {id \in allEntityIds : id \in remainingIds}

\* line 278
discardedOf(allEntityIds, remainingIds) == {id \in allEntityIds : id \notin remainingIds}

\* lines 219-222: nothing is discarded when no features are chosen
noFeaturesChosen(allEntityIds) == [NoMatches EXCEPT !.directMatches = allEntityIds]

\* lines 212-281
computeMatches(kd, chosen) ==
    IF kd = Null THEN NoMatches
    ELSE LET allEntityIds == DOMAIN kd.allEntities IN
         IF Len(chosen) = 0
         THEN noFeaturesChosen(allEntityIds)
         ELSE LET directlyDiscarded ==
                      {id \in allEntityIds : entityDiscarded(kd, id, chosen)}
                  directMatches == allEntityIds \ directlyDiscarded
                  final == indirectLoop(kd.entityTree,
                               [indirectMatches |-> {}, remainingIds |-> directMatches,
                                changedInLoop |-> FALSE])
              IN [directMatches |-> directMatches,
                  indirectMatches |-> final.indirectMatches,
                  discardedEntityIds |-> discardedOf(allEntityIds, final.remainingIds),
                  directlyDiscarded |-> directlyDiscarded]

(***************************************************************************)
(* The chosen-constraint Map.                                              *)
(***************************************************************************)
MapHas(map, id) == \E i \in DOMAIN map : map[i].id = id

MapGet(map, id) == map[CHOOSE i \in DOMAIN map : map[i].id = id]

\* Map.set: an existing key keeps its place, a new key goes last
MapPut(map, id, value) ==
    IF MapHas(map, id)
    THEN [i \in DOMAIN map |-> IF map[i].id = id THEN [id |-> id, value |-> value] ELSE map[i]]
    ELSE Append(map, [id |-> id, value |-> value])

RECURSIVE MapDelete(_, _)
MapDelete(map, id) ==
    IF map = <<>> THEN <<>>
    ELSE (IF Head(map).id = id THEN <<>> ELSE <<Head(map)>>) \o MapDelete(Tail(map), id)

\* updateFeatureMap without the isNaN test of line 379
updateFeatureMap_storesUnparsed(prevMap, id, value, isNumeric) ==
    IF ~isNumeric
    THEN IF Truthy(value) THEN MapPut(prevMap, id, BoolValue(TRUE))
         ELSE MapDelete(prevMap, id)
    ELSE LET isValueInvalid == \/ (~value.isBool /\ value.s = <<>>)
                               \/ value.isBool
         IN IF isValueInvalid THEN MapDelete(prevMap, id) ELSE MapPut(prevMap, id, value)

\* lines 364-388: the new Map
updateFeatureMap(prevMap, id, value, isNumeric) ==
    IF ~isNumeric
    THEN IF Truthy(value) THEN MapPut(prevMap, id, BoolValue(TRUE))
         ELSE MapDelete(prevMap, id)
    ELSE LET isValueInvalid == \/ (~value.isBool /\ value.s = <<>>)
                               \/ value.isBool
                               \/ isNaN(parseFloat(String(value)))
         IN IF isValueInvalid THEN MapDelete(prevMap, id) ELSE MapPut(prevMap, id, value)

\* featureMismatch keeping the entities that have no score for the feature
featureMismatch_keepsUnscored(kd, entityId, featureMatch) ==
    LET featureInfo == kd.allFeatures[featureMatch.id]
        scores == kd.entityScores[entityId]
        userValue == parseFloat(featureMatch.value[1])
    IN /\ featureMatch.id \in DOMAIN scores
       /\ \/ featureInfo.type = "state" /\ ScoreValue(scores[featureMatch.id]) = "0"
          \/ /\ featureInfo.type = "numeric"
             /\ featureMatch.value # None /\ featureMatch.value[1] # <<>>
             /\ \/ isNaN(userValue)
                \/ Lt(userValue, ScoreMin(scores[featureMatch.id]))
                \/ Gt(userValue, ScoreMax(scores[featureMatch.id]))

\* AIAssistant lines 36-54: the entity is deleted from matchingEntityIds
featureMismatch(kd, entityId, featureMatch) ==
    LET featureInfo == kd.allFeatures[featureMatch.id]
        userValue == parseFloat(featureMatch.value[1])
    IN IF entityId \notin DOMAIN kd.entityScores
          \/ featureMatch.id \notin DOMAIN kd.entityScores[entityId]
       THEN TRUE
       ELSE LET score == kd.entityScores[entityId][featureMatch.id]
            IN \/ featureInfo.type = "state" /\ ScoreValue(score) = "0"
               \/ /\ featureInfo.type = "numeric"
                  /\ featureMatch.value # None /\ featureMatch.value[1] # <<>>
                  /\ \/ isNaN(userValue)
                     \/ Lt(userValue, ScoreMin(score))
                     \/ Gt(userValue, ScoreMax(score))

\* AIAssistant lines 30-56: matchingEntityIds after the loop over features
RECURSIVE matchingEntityIds(_, _, _)
matchingEntityIds(features, kd, ids) ==
    IF features = <<>> THEN ids
    ELSE IF Head(features).id \notin DOMAIN kd.allFeatures
         THEN matchingEntityIds(Tail(features), kd, ids)
         ELSE matchingEntityIds(Tail(features), kd,
                                {id \in ids : ~featureMismatch(kd, id, Head(features))})

\* AIAssistant lines 25-60: the entities returned (a set: their order is not
\* modelled)
findMatchingEntities(features, kd) ==
    IF Len(features) = 0 THEN {kd.allEntities[id] : id \in DOMAIN kd.allEntities}
    ELSE {kd.allEntities[id] : id \in matchingEntityIds(features, kd, DOMAIN kd.allEntities)}

(***************************************************************************)
(* Archives.  A zip is a Map from normalized paths to entries:             *)
(*   [kind |-> "dir"], [kind |-> "zip", corrupt, files] (a nested archive, *)
(*   files a Map from names to documents) or [kind |-> "blob", readable].  *)
(* An archive is [corrupt, files]: corrupt when JSZip cannot load it.      *)
(***************************************************************************)
\* lines 65-69, on normalized paths
findFileInZip(files, path) == IF path \in DOMAIN files THEN Some(files[path]) ELSE None

\* lines 71-86: the text of targetFileName in the nested archive, or null
readFromInnerZip(files, innerZipPath, targetFileName) ==
    LET innerZipFile == findFileInZip(files, innerZipPath) IN
    IF innerZipFile = None THEN None
    ELSE IF innerZipFile[1].kind # "zip" \/ innerZipFile[1].corrupt THEN None
    ELSE findFileInZip(innerZipFile[1].files, targetFileName)

DataDirPath == "data/"

InnerDataZipPath == "data/key.data"

InnerScoZipPath == "data/key.sco"

ErrUnreadable == "The selected file could not be read."

ErrNoDataDir == "Data directory not found."

ErrNoKeyData == "Could not find or read key.data from the nested archive."

ErrNotFound(fullPath) == <<"Media file not found in archive", fullPath>>

\* console.warn of line 240 and console.error of line 311
WarnNoScores == <<"Could not find or read normal.sco", "Scores will not be loaded">>

ErrBlob(fullPath) == <<"Failed to get blob for", fullPath>>

\* lines 115-122
EmptyKeyData ==
    [allEntities |-> EmptyMap, entityTree |-> <<>>, allFeatures |-> EmptyMap,
     entityMedia |-> EmptyMap, featureMedia |-> EmptyMap,
     featureTree |-> <<>>, entityScores |-> EmptyMap,
     totalFeaturesCount |-> 0, parsingErrors |-> <<>>]

EmptyDoc == [entity_tree |-> <<>>, features |-> <<>>, feature_tree |-> <<>>, media |-> <<>>]

\* a call of processKeyFromZip at its first await
NewLoad(archive) ==
    [archive |-> archive, pc |-> "loadAsync", message |-> "",
     keyDoc |-> EmptyDoc, data |-> EmptyKeyData, mediaIndex |-> 1, console |-> <<>>]

Throw(l, message) == [l EXCEPT !.pc = "throw", !.message = message]

\* lines 89-107: jszip.loadAsync has settled; the data directory is looked up
afterLoadAsync(l) ==
    IF l.archive.corrupt THEN Throw(l, ErrUnreadable)
    ELSE IF ~(DataDirPath \in DOMAIN l.archive.files
              /\ l.archive.files[DataDirPath].kind = "dir")
    THEN Throw(l, ErrNoDataDir)
    ELSE [l EXCEPT !.pc = "readKey"]

\* lines 109-176: key.data has been read; catalogs and trees are built
afterReadKey(l) ==
    LET keyDataXml == readFromInnerZip(l.archive.files, InnerDataZipPath, "key.data") IN
    IF keyDataXml = None THEN Throw(l, ErrNoKeyData)
    ELSE LET keyDoc == keyDataXml[1]
             allEntities == allEntitiesOf(keyDoc)
             allFeatures == allFeaturesOf(keyDoc)
             featureTree == featureTreeOf(keyDoc, allFeatures)
         IN [l EXCEPT !.pc = "scores",
                      !.keyDoc = keyDoc,
                      !.data = [EmptyKeyData EXCEPT
                                  !.allEntities = allEntities,
                                  !.entityScores = [id \in DOMAIN allEntities |-> EmptyMap],
                                  !.allFeatures = allFeatures,
                                  !.featureTree = featureTree,
                                  !.entityTree = entityTreeOf(keyDoc, allEntities),
                                  !.totalFeaturesCount =
                                      countAvailableFeatures(featureTree)]]

\* processScores throwing when the scoring document cannot be read
processScores_fatal(l) ==
    LET normalScoXml == readFromInnerZip(l.archive.files, InnerScoZipPath, "normal.sco") IN
    IF normalScoXml = None
    THEN Throw(l, ErrNoKeyData)
    ELSE [l EXCEPT !.pc = "media",
                   !.data.entityScores =
                       scoresOf(l.data.entityScores, l.data.allFeatures, normalScoXml[1])]

\* processScores returning without its console.warn
processScores_silent(l) ==
    LET normalScoXml == readFromInnerZip(l.archive.files, InnerScoZipPath, "normal.sco") IN
    IF normalScoXml = None
    THEN [l EXCEPT !.pc = "media"]
    ELSE [l EXCEPT !.pc = "media",
                   !.data.entityScores =
                       scoresOf(l.data.entityScores, l.data.allFeatures, normalScoXml[1])]

\* lines 234-299: processScores has settled
processScores(l) ==
    LET normalScoXml == readFromInnerZip(l.archive.files, InnerScoZipPath, "normal.sco") IN
    IF normalScoXml = None
    THEN [l EXCEPT !.pc = "media", !.console = Append(@, WarnNoScores)]
    ELSE [l EXCEPT !.pc = "media",
                   !.data.entityScores =
                       scoresOf(l.data.entityScores, l.data.allFeatures, normalScoXml[1])]

\* keyData.xMedia.get(itemId).push(mediaData), creating the list first
pushMedia(mediaMap, itemId, mediaData) ==
    MapSet(mediaMap, itemId,
           IF itemId \in DOMAIN mediaMap THEN Append(mediaMap[itemId], mediaData)
           ELSE <<mediaData>>)

\* getBlobUrlFromZip without the parsingErrors.push of line 316
getBlobUrlFromZip_unlogged(files, filePath, parsingErrors, console) ==
    LET file == findFileInZip(files, filePath) IN
    IF file # None /\ file[1].kind = "blob" /\ file[1].readable
    THEN [url |-> Some(filePath), parsingErrors |-> parsingErrors, console |-> console]
    ELSE [url |-> None, parsingErrors |-> parsingErrors,
          console |-> Append(console, ErrBlob(filePath))]

\* lines 301-318: [url, parsingErrors, console]; url is a blob handle or null
getBlobUrlFromZip(files, filePath, parsingErrors, console) ==
    LET file == findFileInZip(files, filePath) IN
    IF file # None
    THEN IF file[1].kind = "blob" /\ file[1].readable
         THEN [url |-> Some(filePath), parsingErrors |-> parsingErrors, console |-> console]
         ELSE [url |-> None, parsingErrors |-> parsingErrors,
               console |-> Append(console, ErrBlob(filePath))]
    ELSE [url |-> None, parsingErrors |-> Append(parsingErrors, ErrNotFound(filePath)),
          console |-> console]

\* rootPath + 'Media/' + pathFromXml, normalized
MediaFullPath(pathFromXml) == "media/" \o pathFromXml

\* processMediaItem with two independent tests instead of if / else if
processMediaItem_both(l) ==
    LET mediaItem == l.keyDoc.media[l.mediaIndex]
        next == [l EXCEPT !.mediaIndex = @ + 1]
    IN IF ~mediaItem.hasDetails \/ mediaItem.media_path = "" THEN next
       ELSE IF mediaItem.item_id = "" THEN next
       ELSE LET got == getBlobUrlFromZip(l.archive.files,
                                         MediaFullPath(mediaItem.media_path),
                                         l.data.parsingErrors, l.console)
                logged == [next EXCEPT !.data.parsingErrors = got.parsingErrors,
                                       !.console = got.console]
                mediaData == [url |-> got.url[1], caption |-> mediaItem.caption]
                asEntity == IF mediaItem.item_id \in DOMAIN l.data.allEntities
                            THEN [logged EXCEPT !.data.entityMedia =
                                                   pushMedia(@, mediaItem.item_id, mediaData)]
                            ELSE logged
            IN IF got.url = None THEN logged
               ELSE IF mediaItem.item_id \in DOMAIN l.data.allFeatures
               THEN [asEntity EXCEPT !.data.featureMedia =
                                        pushMedia(@, mediaItem.item_id, mediaData)]
               ELSE asEntity

\* lines 321-352: one iteration of the loop over the media_item elements
processMediaItem(l) ==
    LET mediaItem == l.keyDoc.media[l.mediaIndex]
        next == [l EXCEPT !.mediaIndex = @ + 1]
    IN IF ~mediaItem.hasDetails \/ mediaItem.media_path = "" THEN next
       ELSE IF mediaItem.item_id = "" THEN next
       ELSE LET got == getBlobUrlFromZip(l.archive.files,
                                         MediaFullPath(mediaItem.media_path),
                                         l.data.parsingErrors, l.console)
                logged == [next EXCEPT !.data.parsingErrors = got.parsingErrors,
                                       !.console = got.console]
                mediaData == [url |-> got.url[1], caption |-> mediaItem.caption]
            IN IF got.url = None THEN logged
               ELSE IF mediaItem.item_id \in DOMAIN l.data.allEntities
               THEN [logged EXCEPT !.data.entityMedia =
                                      pushMedia(@, mediaItem.item_id, mediaData)]
               ELSE IF mediaItem.item_id \in DOMAIN l.data.allFeatures
               THEN [logged EXCEPT !.data.featureMedia =
                                      pushMedia(@, mediaItem.item_id, mediaData)]
               ELSE logged

\* the loop of processMedia left after its first iteration
mediaDone_first(l) == l.mediaIndex > 1 \/ l.mediaIndex > Len(l.keyDoc.media)

\* the loop of processMedia is over: processKeyFromZip returns keyData
mediaDone(l) == l.mediaIndex > Len(l.keyDoc.media)

\* the next step of a call of processKeyFromZip
loadStep(l) ==
    CASE l.pc = "loadAsync" -> afterLoadAsync(l)
      [] l.pc = "readKey" -> afterReadKey(l)
      [] l.pc = "scores" -> processScores(l)
      [] l.pc = "media" -> IF mediaDone(l) THEN [l EXCEPT !.pc = "return"]
                           ELSE processMediaItem(l)
      [] OTHER -> l

\* processKeyFromZip run to its return or throw
RECURSIVE processKeyFromZip(_)
processKeyFromZip(l) ==
    IF l.pc \in {"return", "throw"} THEN l ELSE processKeyFromZip(loadStep(l))

(***************************************************************************)
(* The state of App and of the calls of handleFileSelect in flight.        *)
(***************************************************************************)
VARIABLES
    keyData,          \* KeyData | null
    chosenFeatures,   \* Map<string, ChosenFeature>
    isLoading,
    error,            \* string | null
    matches,          \* the memo of lines 212-281
    loads,            \* the calls of processKeyFromZip that have not settled
    lastSettled,      \* how the call that settled last ended (history)
    aiChatHistory,    \* RawChatMessage[] (App state handed to AIAssistant)
    isThinking,       \* AIAssistant state
    consolidatedDescription,   \* AIAssistant ref: "" (None) or the description of a response
    requests,         \* the calls of sendMessage, in the order they were made
    modalState,       \* ModalState (App)
    underlyingModalState,   \* ModalState | null (App)
    entityModal,      \* EntityModal: [activeEntityId, navigationHistory, seen]
    modal,            \* the Modal of EntityModal: [isRendered, isVisible, timers, seenIsOpen]
    imageViewer,      \* the ImageViewer of EntityModal: [currentImageIndex, seenMedia]
    expandedRemainingNodes,   \* Set<string> (App)
    entitiesPanel     \* the "entities remaining" panel: [searchTerm, matchingIds, seen];
                      \* matchingIds is None for null

\* the state of AIAssistant itself
assistantVars == <<isThinking, consolidatedDescription, requests>>

\* the state of the components other than App's key, constraints and chat
\* the modals of App and the components inside EntityModal; `seen` fields hold
\* the dependencies an effect last ran for
modalVars == <<modalState, underlyingModalState, entityModal, modal, imageViewer>>

panelVars == <<expandedRemainingNodes, entitiesPanel>>

uiVars == <<assistantVars, modalVars, panelVars>>

vars == <<keyData, chosenFeatures, isLoading, error, matches, loads, lastSettled,
          aiChatHistory, uiVars>>

\* the components as first rendered
UiInit ==
    /\ aiChatHistory = <<>>
    /\ isThinking = FALSE
    /\ consolidatedDescription = None
    /\ requests = <<>>
    /\ modalState = [type |-> "none"]
    /\ underlyingModalState = Null
    /\ entityModal = [activeEntityId |-> Undefined, navigationHistory |-> <<>>,
                      seen |-> <<FALSE, Undefined>>]
    /\ modal = [isRendered |-> FALSE, isVisible |-> FALSE, timers |-> {"hide"},
                seenIsOpen |-> FALSE]
    /\ imageViewer = [currentImageIndex |-> 0, seenMedia |-> None]
    /\ expandedRemainingNodes = {}
    /\ entitiesPanel = [searchTerm |-> <<>>, matchingIds |-> None, seen |-> None]

NoError == "null"

NotSettled == [outcome |-> "none", message |-> ""]

\* the sequence s without its element i
RemoveAt(s, i) == [j \in 1..(Len(s) - 1) |-> IF j < i THEN s[j] ELSE s[j + 1]]

\* lines 334-346: up to the first await of processKeyFromZip
handleFileSelect(archive) ==
    /\ keyData' = Null
    /\ chosenFeatures' = <<>>
    /\ isLoading' = TRUE
    /\ error' = NoError
    /\ loads' = Append(loads, NewLoad(archive))
    /\ matches' = computeMatches(keyData', chosenFeatures')
    /\ lastSettled' = NotSettled
    /\ aiChatHistory' = <<>>
    /\ UNCHANGED uiVars

\* an awaited step of the call loads[i] settles
LoadStep(i) ==
    /\ loads[i].pc \notin {"return", "throw"}
    /\ loads' = [loads EXCEPT ![i] = loadStep(@)]
    /\ UNCHANGED <<keyData, chosenFeatures, isLoading, error, matches, lastSettled,
                   aiChatHistory, uiVars>>

\* lines 347-348 and 356-361: processKeyFromZip returned
LoadResolved(i) ==
    /\ loads[i].pc = "return"
    /\ keyData' = loads[i].data
    /\ isLoading' = FALSE
    /\ loads' = RemoveAt(loads, i)
    /\ matches' = computeMatches(keyData', chosenFeatures)
    /\ lastSettled' = [outcome |-> "resolved", message |-> ""]
    /\ UNCHANGED <<chosenFeatures, error, aiChatHistory, uiVars>>

\* lines 349-361: processKeyFromZip threw
LoadRejected(i) ==
    /\ loads[i].pc = "throw"
    /\ error' = loads[i].message
    /\ isLoading' = FALSE
    /\ loads' = RemoveAt(loads, i)
    /\ lastSettled' = [outcome |-> "rejected", message |-> loads[i].message]
    /\ UNCHANGED <<keyData, chosenFeatures, matches, aiChatHistory, uiVars>>

\* lines 364-388, from the panels rendered while a key is loaded
updateFeature(id, value, isNumeric) ==
    /\ keyData # Null
    /\ chosenFeatures' = updateFeatureMap(chosenFeatures, id, value, isNumeric)
    /\ matches' = computeMatches(keyData, chosenFeatures')
    /\ UNCHANGED <<keyData, isLoading, error, loads, lastSettled, aiChatHistory, uiVars>>

\* resetKey clearing the model as handleFileSelect does
resetKey_clearsModel ==
    /\ keyData # Null
    /\ chosenFeatures' = <<>>
    /\ keyData' = Null
    /\ matches' = computeMatches(keyData', chosenFeatures')
    /\ expandedRemainingNodes' = {}
    /\ entitiesPanel' = [entitiesPanel EXCEPT !.seen = None]
    /\ UNCHANGED <<isLoading, error, loads, lastSettled, aiChatHistory, assistantVars,
                   modalVars>>

\* lines 328-332, from the reset button (disabled without a key)
resetKey ==
    /\ keyData # Null
    /\ chosenFeatures' = <<>>
    /\ matches' = computeMatches(keyData, chosenFeatures')
    /\ expandedRemainingNodes' = {}
    /\ entitiesPanel' = [entitiesPanel EXCEPT !.seen = None]
    /\ UNCHANGED <<keyData, isLoading, error, loads, lastSettled, aiChatHistory,
                   assistantVars, modalVars>>

\* filterEntityTree tagging every kept ancestor group as dimmed
RECURSIVE filterEntityTree_dimAll(_, _, _, _)
filterEntityTree_dimAll(nodes, allowedIds, directIds, directlyDiscarded) ==
    IF nodes = <<>> THEN <<>>
    ELSE LET node == Head(nodes)
             children == IF node.isGroup
                         THEN filterEntityTree_dimAll(node.children, allowedIds, directIds,
                                                      directlyDiscarded)
                         ELSE <<>>
             kept == IF node.id \in allowedIds
                     THEN IF node.isGroup /\ Len(children) = 0 /\ node.id \notin directIds
                          THEN <<>>
                          ELSE <<[node EXCEPT !.children = children]>>
                     ELSE IF node.isGroup /\ Len(children) > 0
                          THEN <<[id |-> node.id, name |-> node.name, children |-> children,
                                  isGroup |-> node.isGroup, isDimmed |-> TRUE]>>
                          ELSE <<>>
         IN kept \o filterEntityTree_dimAll(Tail(nodes), allowedIds, directIds,
                                             directlyDiscarded)

\* lines 424-444; directlyDiscarded is optional (None: the argument is left out)
RECURSIVE filterEntityTree(_, _, _, _)
filterEntityTree(nodes, allowedIds, directIds, directlyDiscarded) ==
    IF nodes = <<>> THEN <<>>
    ELSE LET node == Head(nodes)
             children == IF node.isGroup
                         THEN filterEntityTree(node.children, allowedIds, directIds,
                                               directlyDiscarded)
                         ELSE <<>>
             isSelfDiscarded == IF directlyDiscarded = None THEN FALSE
                                ELSE node.id \in directlyDiscarded[1]
             kept == IF node.id \in allowedIds
                     THEN IF node.isGroup /\ Len(children) = 0 /\ node.id \notin directIds
                          THEN <<>>
                          ELSE <<[node EXCEPT !.children = children]>>
                     ELSE IF node.isGroup /\ Len(children) > 0
                          THEN <<[id |-> node.id, name |-> node.name, children |-> children,
                                  isGroup |-> node.isGroup, isDimmed |-> ~isSelfDiscarded]>>
                          ELSE <<>>
         IN kept \o filterEntityTree(Tail(nodes), allowedIds, directIds, directlyDiscarded)

\* line 534: the tree of the panel of the remaining entities
remainingTree ==
    filterEntityTree(keyData.entityTree, matches.directMatches \cup matches.indirectMatches,
                     matches.directMatches, None)

\* line 547: the tree of the panel of the discarded entities
discardedTree ==
    filterEntityTree(keyData.entityTree, matches.discardedEntityIds, {},
                     Some(matches.directlyDiscarded))

\* FeatureNodeRenderer lines 33-43: the ids of the nodes drawn with a checkbox
RECURSIVE checkboxIds(_)
checkboxIds(nodes) ==
    IF nodes = <<>> THEN {}
    ELSE (IF Head(nodes).type = "state" THEN {Head(nodes).id} ELSE {})
         \cup checkboxIds(Head(nodes).children) \cup checkboxIds(Tail(nodes))

(***************************************************************************)
(* The documents the specifications draw their archives from.              *)
(***************************************************************************)
EntityIds == <<"E1", "E2", "E3", "E4", "E5", "E6">>

\* one state (S1), one numeric feature (N1) and one text feature (T1)
FeatureItems ==
    <<[tag |-> "state_item", item_id |-> "S1", item_name |-> "red", score_type |-> ""],
      [tag |-> "feature_item", item_id |-> "N1", item_name |-> "length",
       score_type |-> "numeric"],
      [tag |-> "feature_item", item_id |-> "T1", item_name |-> "notes",
       score_type |-> "text"]>>

\* the feature_tree whose top-level nodes hold the given items
FlatFeatureTree(items) == [i \in DOMAIN items |-> [parent |-> 0, item_id |-> items[i].item_id]]

\* an archive with every required directory and nested archive in place
ArchiveOf(keyDoc, scoDoc, blobs) ==
    [corrupt |-> FALSE,
     files |-> (DataDirPath :> [kind |-> "dir"])
               @@ (InnerDataZipPath :> [kind |-> "zip", corrupt |-> FALSE,
                                        files |-> ("key.data" :> keyDoc)])
               @@ (InnerScoZipPath :> [kind |-> "zip", corrupt |-> FALSE,
                                       files |-> ("normal.sco" :> scoDoc)])
               @@ blobs]

\* the scored_item elements of the entities 1..n under profile assignment a
RECURSIVE StateScored(_, _, _)
StateScored(a, i, n) ==
    IF i > n THEN <<>>
    ELSE (IF a[i].value = "" THEN <<>>
          ELSE <<[item_id |-> EntityIds[i], value |-> a[i].value, hasData |-> FALSE,
                  omin |-> <<>>, omax |-> <<>>]>>) \o StateScored(a, i + 1, n)

RECURSIVE NumericScored(_, _, _)
NumericScored(a, i, n) ==
    IF i > n THEN <<>>
    ELSE (IF ~a[i].hasData THEN <<>>
          ELSE <<[item_id |-> EntityIds[i], value |-> "", hasData |-> TRUE,
                  omin |-> a[i].omin, omax |-> a[i].omax]>>) \o NumericScored(a, i + 1, n)

ScoDocOf(a, n) ==
    <<[section |-> "normal", item_id |-> "S1", scored |-> StateScored(a, 1, n)],
      [section |-> "numeric", item_id |-> "N1", scored |-> NumericScored(a, 1, n)]>>

Unscored == [value |-> "", hasData |-> FALSE, omin |-> <<>>, omax |-> <<>>]

Scored(value, omin, omax) ==
    [value |-> value, hasData |-> TRUE, omin |-> omin, omax |-> omax]

(***************************************************************************)
(* SpecMatch: the match computation over entity trees of MaxNodes nodes.   *)
(***************************************************************************)
\* an entity is unscored, or has S1 and the range [2, 3] of N1
TreeProfiles == {Unscored, Scored("1", <<"2">>, <<"3">>)}

TreeShapes == {p \in [1..MaxNodes -> 0..(MaxNodes - 1)] : \A i \in 1..MaxNodes : p[i] < i}

TreeDoc(p) ==
    [entity_tree |-> [i \in 1..MaxNodes |->
                        [parent |-> p[i], item_id |-> EntityIds[i],
                         item_name |-> EntityIds[i]]],
     features |-> FeatureItems,
     feature_tree |-> FlatFeatureTree(FeatureItems),
     media |-> <<>>]

TreeArchives ==
    {ArchiveOf(TreeDoc(p), ScoDocOf(a, MaxNodes), EmptyMap) :
        p \in TreeShapes, a \in [1..MaxNodes -> TreeProfiles]}

InitMatch ==
    /\ \E archive \in TreeArchives : keyData = processKeyFromZip(NewLoad(archive)).data
    /\ chosenFeatures = <<>>
    /\ isLoading = FALSE
    /\ error = NoError
    /\ matches = computeMatches(keyData, chosenFeatures)
    /\ loads = <<>>
    /\ lastSettled = NotSettled
    /\ UiInit

TreeUserValues == {<<>>, <<"2">>, <<"4">>}

NextMatch ==
    \/ \E b \in BOOLEAN : updateFeature("S1", BoolValue(b), FALSE)
    \/ \E s \in TreeUserValues : updateFeature("N1", StrValue(s), TRUE)
    \/ resetKey

SpecMatch == InitMatch /\ [][NextMatch]_vars

(***************************************************************************)
(* SpecScore: the match computation over the scores of two entities and    *)
(* the values a caller of updateFeature can pass.                          *)
(***************************************************************************)
ScoreValues == {"", "0", "1", "3", "5"}

\* omin / omax attributes: none, a range, a missing omin, an inverted range,
\* an omin that is no number
ScoreRanges ==
    {[hasData |-> FALSE, omin |-> <<>>, omax |-> <<>>],
     [hasData |-> TRUE, omin |-> <<"2">>, omax |-> <<"3">>],
     [hasData |-> TRUE, omin |-> <<>>, omax |-> <<"3">>],
     [hasData |-> TRUE, omin |-> <<"3">>, omax |-> <<"2">>],
     [hasData |-> TRUE, omin |-> <<"x">>, omax |-> <<"3">>]}

ScoreProfiles ==
    {[value |-> v, hasData |-> r.hasData, omin |-> r.omin, omax |-> r.omax] :
        v \in ScoreValues, r \in ScoreRanges}

ScoreDoc ==
    [entity_tree |-> <<[parent |-> 0, item_id |-> "E1", item_name |-> "E1"],
                       [parent |-> 1, item_id |-> "E2", item_name |-> "E2"]>>,
     features |-> FeatureItems,
     feature_tree |-> FlatFeatureTree(FeatureItems),
     media |-> <<>>]

ScoreArchives ==
    {ArchiveOf(ScoreDoc, ScoDocOf(a, 2), EmptyMap) : a \in [1..2 -> ScoreProfiles]}

ScoreUserInputs ==
    {BoolValue(TRUE), BoolValue(FALSE), StrValue(<<>>), StrValue(<<"a", "b", "c">>),
     StrValue(<<"3", "a">>)}
    \cup {StrValue(NumText(n)) : n \in 1..MaxUserNum}

InitScore ==
    /\ \E archive \in ScoreArchives : keyData = processKeyFromZip(NewLoad(archive)).data
    /\ chosenFeatures = <<>>
    /\ isLoading = FALSE
    /\ error = NoError
    /\ matches = computeMatches(keyData, chosenFeatures)
    /\ loads = <<>>
    /\ lastSettled = NotSettled
    /\ UiInit

NextScore ==
    \/ \E id \in {"S1", "N1"}, value \in ScoreUserInputs, isNumeric \in BOOLEAN :
          updateFeature(id, value, isNumeric)
    \/ resetKey

SpecScore == InitScore /\ [][NextScore]_vars

(***************************************************************************)
(* SpecParse: one call of handleFileSelect at a time, over archives that  *)
(* lack a directory, a nested archive, a document or a media file.         *)
(***************************************************************************)
MediaItems ==
    <<[hasDetails |-> TRUE, media_path |-> "a.jpg", item_id |-> "E1", caption |-> "a"],
      [hasDetails |-> TRUE, media_path |-> "b.jpg", item_id |-> "S1", caption |-> "b"],
      [hasDetails |-> TRUE, media_path |-> "c.jpg", item_id |-> "E2", caption |-> "c"]>>

LoadDoc ==
    [entity_tree |-> <<[parent |-> 0, item_id |-> "E1", item_name |-> "E1"],
                       [parent |-> 1, item_id |-> "E2", item_name |-> "E2"]>>,
     features |-> FeatureItems,
     feature_tree |-> FlatFeatureTree(FeatureItems),
     media |-> MediaItems]

\* a key with the same entities whose only feature is N1
OtherDoc ==
    [entity_tree |-> LoadDoc.entity_tree,
     features |-> <<FeatureItems[2]>>,
     feature_tree |-> FlatFeatureTree(<<FeatureItems[2]>>),
     media |-> <<>>]

LoadScoDoc == ScoDocOf(<<Scored("1", <<"2">>, <<"3">>), Scored("0", <<"2">>, <<"3">>)>>, 2)

\* the entry of a media file, none when the archive lacks it
BlobEntry(path, state) ==
    IF state = "missing" THEN EmptyMap
    ELSE (MediaFullPath(path) :> [kind |-> "blob", readable |-> (state = "ok")])

BlobStates == {"ok", "unreadable", "missing"}

Structures ==
    {"ok", "corrupt", "noDataDir", "noDataZip", "badDataZip", "noKeyData",
     "noScoZip", "badScoZip", "noNormalSco"}

\* the archive of LoadDoc with one structural defect and the three media
\* files in the given states
MakeArchive(structure, blobA, blobB, blobC) ==
    [corrupt |-> (structure = "corrupt"),
     files |->
        (IF structure = "noDataDir" THEN EmptyMap ELSE (DataDirPath :> [kind |-> "dir"]))
        @@ (IF structure = "noDataZip" THEN EmptyMap
            ELSE (InnerDataZipPath :>
                    [kind |-> "zip", corrupt |-> (structure = "badDataZip"),
                     files |-> IF structure = "noKeyData" THEN EmptyMap
                               ELSE ("key.data" :> IF structure = "otherKey" THEN OtherDoc
                                                   ELSE LoadDoc)]))
        @@ (IF structure = "noScoZip" THEN EmptyMap
            ELSE (InnerScoZipPath :>
                    [kind |-> "zip", corrupt |-> (structure = "badScoZip"),
                     files |-> IF structure = "noNormalSco" THEN EmptyMap
                               ELSE ("normal.sco" :> LoadScoDoc)]))
        @@ BlobEntry("a.jpg", blobA) @@ BlobEntry("b.jpg", blobB)
        @@ BlobEntry("c.jpg", blobC)]

ParseArchives ==
    {MakeArchive(st, a, b, c) :
        st \in Structures, a \in BlobStates, b \in BlobStates, c \in BlobStates}

Init ==
    /\ keyData = Null
    /\ chosenFeatures = <<>>
    /\ isLoading = FALSE
    /\ error = NoError
    /\ matches = NoMatches
    /\ loads = <<>>
    /\ lastSettled = NotSettled
    /\ UiInit

NextParse ==
    \/ \E archive \in ParseArchives : Len(loads) = 0 /\ handleFileSelect(archive)
    \/ \E i \in DOMAIN loads : LoadStep(i)
    \/ \E i \in DOMAIN loads : LoadResolved(i)
    \/ \E i \in DOMAIN loads : LoadRejected(i)

SpecParse == Init /\ [][NextParse]_vars

(***************************************************************************)
(* Spec: the application with up to MaxLoads calls of handleFileSelect in  *)
(* flight (the file input stays enabled while a key is loading).           *)
(***************************************************************************)
AppArchives ==
    {MakeArchive(st, "ok", "ok", "ok") :
        st \in {"ok", "otherKey", "noDataDir", "noDataZip", "noKeyData", "noScoZip"}}

Next ==
    \/ \E archive \in AppArchives : Len(loads) < MaxLoads /\ handleFileSelect(archive)
    \/ \E i \in DOMAIN loads : LoadStep(i)
    \/ \E i \in DOMAIN loads : LoadResolved(i)
    \/ \E i \in DOMAIN loads : LoadRejected(i)
    \/ \E b \in BOOLEAN :
          /\ keyData # Null
          /\ "S1" \in checkboxIds(keyData.featureTree)
          /\ updateFeature("S1", BoolValue(b), FALSE)
    \/ resetKey

Spec == Init /\ [][Next]_vars

(***************************************************************************)
(* SpecBuild: the first call of handleFileSelect of a session, over key     *)
(* documents whose feature tree, entity tree or state scores vary.         *)
(***************************************************************************)
FeatureIds == <<"F1", "F2", "F3", "F4", "F5">>

\* the item element of a feature_node: a state, a numeric feature, a feature
\* with score_type "normal" (categorical or grouping), a text feature
FeatureKinds ==
    {[tag |-> "state_item", score_type |-> ""],
     [tag |-> "feature_item", score_type |-> "numeric"],
     [tag |-> "feature_item", score_type |-> "normal"],
     [tag |-> "feature_item", score_type |-> "text"]}

FeatureShapes ==
    {p \in [1..MaxFeatureNodes -> 0..(MaxFeatureNodes - 1)] :
        \A i \in 1..MaxFeatureNodes : p[i] < i}

\* key.data with feature_node i under feature_node p[i], its item of kind k[i]
FeatureTreeDoc(p, k) ==
    [entity_tree |-> LoadDoc.entity_tree,
     features |-> [i \in 1..MaxFeatureNodes |->
                     [tag |-> k[i].tag, item_id |-> FeatureIds[i],
                      item_name |-> FeatureIds[i], score_type |-> k[i].score_type]],
     feature_tree |-> [i \in 1..MaxFeatureNodes |->
                         [parent |-> p[i], item_id |-> FeatureIds[i]]],
     media |-> <<>>]

\* key.data with entity_node i under entity_node p[i]; node `missing` (if any)
\* has no item_id
EntityTreeDoc(p, missing) ==
    [entity_tree |-> [i \in 1..MaxNodes |->
                        [parent |-> p[i],
                         item_id |-> IF i = missing THEN "" ELSE EntityIds[i],
                         item_name |-> IF i = missing THEN "" ELSE EntityIds[i]]],
     features |-> FeatureItems,
     feature_tree |-> FlatFeatureTree(FeatureItems),
     media |-> <<>>]

\* the value attribute of a scored_item of normal_score_data
CodeValues == {"0", "1", "2", "3", "4", "5", "7", "x"}

\* the item_id of a media_details: an entity, an id that is both an entity and
\* a feature, a state, a text feature (not in the catalog), an unknown id, none
MediaOwnerIds == {"E1", "E2", "S1", "T1", "Z9", ""}

\* key.data where E2 is also the id of a numeric feature, with two media items
\* of the given item ids
MediaDoc(ids) ==
    [entity_tree |-> LoadDoc.entity_tree,
     features |-> Append(FeatureItems,
                         [tag |-> "feature_item", item_id |-> "E2", item_name |-> "width",
                          score_type |-> "numeric"]),
     feature_tree |-> FlatFeatureTree(FeatureItems),
     media |-> <<[hasDetails |-> TRUE, media_path |-> "a.jpg", item_id |-> ids[1],
                  caption |-> "a"],
                 [hasDetails |-> TRUE, media_path |-> "b.jpg", item_id |-> ids[2],
                  caption |-> "b"]>>]

MediaArchives ==
    {ArchiveOf(MediaDoc(ids), LoadScoDoc, BlobEntry("a.jpg", "ok") @@ BlobEntry("b.jpg", b)) :
        ids \in [1..2 -> MediaOwnerIds], b \in BlobStates}

BuildArchives ==
    {ArchiveOf(FeatureTreeDoc(p, k), LoadScoDoc, EmptyMap) :
        p \in FeatureShapes, k \in [1..MaxFeatureNodes -> FeatureKinds]}
    \cup {ArchiveOf(EntityTreeDoc(p, missing), LoadScoDoc, EmptyMap) :
            p \in TreeShapes, missing \in 0..MaxNodes}
    \cup {ArchiveOf(LoadDoc, ScoDocOf([i \in 1..2 |-> Scored(v[i], <<"2">>, <<"3">>)], 2),
                    EmptyMap) : v \in [1..2 -> CodeValues]}
    \cup MediaArchives
    \cup {MakeArchive("corrupt", "ok", "ok", "ok")}

NextBuild ==
    \/ \E archive \in BuildArchives :
          /\ Len(loads) = 0 /\ keyData = Null /\ error = NoError
          /\ handleFileSelect(archive)
    \/ \E i \in DOMAIN loads : LoadStep(i)
    \/ \E i \in DOMAIN loads : LoadResolved(i)
    \/ \E i \in DOMAIN loads : LoadRejected(i)

SpecBuild == Init /\ [][NextBuild]_vars

(***************************************************************************)
(* SpecChat: the assistant over a loaded key; messages are sent, answered  *)
(* by the API, shown after the 500 ms delay, and the history is cleared    *)
(* by its button or by the selection of a file.  The n-th text the user    *)
(* sends is the text n, and an answer names the text it answers.  A        *)
(* GeminiResponse is [features_used], a sequence of GeminiFeatureMatch     *)
(* [id, value], value an optional string.                                  *)
(***************************************************************************)
appVars == <<keyData, chosenFeatures, isLoading, error, matches, loads, lastSettled>>

\* AIAssistant lines 137-144 and 166: sendMessage up to its await
sendMessage ==
    /\ ~isThinking
    /\ keyData # Null
    /\ Len(requests) < MaxRequests
    /\ aiChatHistory' = Append(aiChatHistory,
                               [sender |-> "user", content |-> Len(requests) + 1])
    /\ isThinking' = TRUE
    /\ requests' = Append(requests, [stage |-> "api", response |-> None])
    /\ UNCHANGED <<appVars, consolidatedDescription, modalVars, panelVars>>

\* lines 166-176: callGeminiAPI returned; the response waits in setTimeout
apiResolved(n, response) ==
    /\ requests[n].stage = "api"
    /\ isThinking' = FALSE
    /\ requests' = [requests EXCEPT ![n] = [stage |-> "delay", response |-> Some(response)]]
    /\ UNCHANGED <<appVars, aiChatHistory, consolidatedDescription, modalVars, panelVars>>

\* lines 177-182: callGeminiAPI threw
apiRejected(n) ==
    /\ requests[n].stage = "api"
    /\ aiChatHistory' = Append(aiChatHistory,
                               [sender |-> "ai", aiType |-> "error", answers |-> n])
    /\ isThinking' = FALSE
    /\ requests' = [requests EXCEPT ![n].stage = "done"]
    /\ UNCHANGED <<appVars, consolidatedDescription, modalVars, panelVars>>

\* lines 172-176: the callback of setTimeout(..., 500)
delayFired(n) ==
    /\ requests[n].stage = "delay"
    /\ consolidatedDescription' = Some(n)
    /\ aiChatHistory' = Append(aiChatHistory,
                               [sender |-> "ai", aiType |-> "response", answers |-> n,
                                data |-> requests[n].response[1]])
    /\ requests' = [requests EXCEPT ![n].stage = "done"]
    /\ UNCHANGED <<appVars, isThinking, modalVars, panelVars>>

\* lines 72-75, from the button of the chat view (lines 206 and 227: drawn
\* when the history is not empty and a key is loaded)
handleClearHistory ==
    /\ Len(aiChatHistory) > 0
    /\ keyData # Null
    /\ aiChatHistory' = <<>>
    /\ consolidatedDescription' = None
    /\ UNCHANGED <<appVars, isThinking, requests, modalVars, panelVars>>

\* a GeminiResponse naming the state S1
ChatResponse == [features_used |-> <<[id |-> "S1", value |-> None]>>]

InitChat ==
    /\ keyData = processKeyFromZip(NewLoad(MakeArchive("ok", "ok", "ok", "ok"))).data
    /\ chosenFeatures = <<>>
    /\ isLoading = FALSE
    /\ error = NoError
    /\ matches = computeMatches(keyData, chosenFeatures)
    /\ loads = <<>>
    /\ lastSettled = NotSettled
    /\ UiInit

NextChat ==
    \/ sendMessage
    \/ \E n \in DOMAIN requests : apiResolved(n, ChatResponse)
    \/ \E n \in DOMAIN requests : apiRejected(n)
    \/ \E n \in DOMAIN requests : delayFired(n)
    \/ handleClearHistory
    \/ Len(loads) = 0 /\ handleFileSelect(MakeArchive("ok", "ok", "ok", "ok"))
    \/ \E i \in DOMAIN loads : LoadStep(i)
    \/ \E i \in DOMAIN loads : LoadResolved(i)

SpecChat == InitChat /\ [][NextChat]_vars

(***************************************************************************)
(* SpecChosen: updateFeature and resetKey called with any id of the key    *)
(* document and any value, over one model.                                 *)
(***************************************************************************)
\* the ids of the feature items of the key document
ChosenIds == {"S1", "N1", "T1"}

\* values handed to updateFeature: booleans, the empty string, a string that
\* is no number, a number followed by a letter, two numbers
ChosenUserInputs ==
    {BoolValue(TRUE), BoolValue(FALSE), StrValue(<<>>), StrValue(<<"a", "b", "c">>),
     StrValue(<<"3", "a">>), StrValue(<<"2">>), StrValue(<<"4">>)}

NextChosen ==
    \/ \E id \in ChosenIds, value \in ChosenUserInputs, isNumeric \in BOOLEAN :
          updateFeature(id, value, isNumeric)
    \/ resetKey

SpecChosen == InitChat /\ [][NextChosen]_vars

(***************************************************************************)
(* SpecAssist: one message sent to the assistant over each model of        *)
(* SpecScore; the API answers with any short list of feature matches.      *)
(***************************************************************************)
\* a GeminiFeatureMatch: the state, the numeric feature with a value inside
\* or outside the scored range, with a value that is no number, with an empty
\* value, and a text feature (absent from the catalog)
AssistFeatureMatches ==
    {[id |-> "S1", value |-> None],
     [id |-> "N1", value |-> Some(<<"2">>)],
     [id |-> "N1", value |-> Some(<<"4">>)],
     [id |-> "N1", value |-> Some(<<"x">>)],
     [id |-> "N1", value |-> Some(<<>>)],
     [id |-> "T1", value |-> Some(<<"2">>)]}

AssistResponses ==
    {[features_used |-> <<>>]}
    \cup {[features_used |-> <<a>>] : a \in AssistFeatureMatches}
    \cup {[features_used |-> <<a, b>>] : a \in AssistFeatureMatches, b \in AssistFeatureMatches}

InitAssist ==
    /\ \E archive \in ScoreArchives : keyData = processKeyFromZip(NewLoad(archive)).data
    /\ chosenFeatures = <<>>
    /\ isLoading = FALSE
    /\ error = NoError
    /\ matches = computeMatches(keyData, chosenFeatures)
    /\ loads = <<>>
    /\ lastSettled = NotSettled
    /\ UiInit

NextAssist ==
    \/ Len(requests) = 0 /\ sendMessage
    \/ \E n \in DOMAIN requests, response \in AssistResponses : apiResolved(n, response)
    \/ \E n \in DOMAIN requests : apiRejected(n)
    \/ \E n \in DOMAIN requests : delayFired(n)

SpecAssist == InitAssist /\ [][NextAssist]_vars

(***************************************************************************)
(* The modals: App's modalState and underlyingModalState, EntityModal with *)
(* its Modal and its ImageViewer.  An effect is an action of its own,      *)
(* enabled while the dependencies of the last render differ from those it  *)
(* last ran for; a state in which it is enabled is a render that happened  *)
(* before the effect.  React flushes pending effects before it handles the *)
(* next event or timer, so those wait for the effects.                     *)
(***************************************************************************)

nonModalVars == <<appVars, aiChatHistory, assistantVars, panelVars>>

\* App, line 450: isOpen={modalState.type === 'entity'}
EntityIsOpen == modalState.type = "entity"

\* App, line 452: entityId={(modalState as any).entityId}
EntityIdProp == IF modalState.type = "entity" THEN modalState.entityId ELSE Undefined

EntityDeps == <<EntityIsOpen, EntityIdProp>>

\* EntityModal, lines 34-35
ActiveEntityExists ==
    keyData # Null /\ entityModal.activeEntityId \in DOMAIN keyData.allEntities

ViewerMedia ==
    IF keyData # Null /\ entityModal.activeEntityId \in DOMAIN keyData.entityMedia
    THEN keyData.entityMedia[entityModal.activeEntityId] ELSE <<>>

\* EntityModal, lines 38-50; null is the empty path
RECURSIVE findEntityPath(_, _, _)
findEntityPath(nodes, targetId, path) ==
    IF nodes = <<>> THEN <<>>
    ELSE LET node == Head(nodes)
             currentPath == Append(path, node.id)
         IN IF node.id = targetId THEN currentPath
            ELSE LET foundPath == IF Len(node.children) > 0
                                  THEN findEntityPath(node.children, targetId, currentPath)
                                  ELSE <<>>
                 IN IF foundPath # <<>> THEN foundPath
                    ELSE findEntityPath(Tail(nodes), targetId, path)

\* EntityModal, line 52
entityHierarchy ==
    IF keyData # Null /\ entityModal.activeEntityId \notin {Undefined, ""}
    THEN findEntityPath(keyData.entityTree, entityModal.activeEntityId, <<>>) ELSE <<>>

\* Modal returns null while it is not rendered (part_001 lines 42-44); EntityModal
\* gives it an empty div while the entity is unknown (EntityModal line 54)
ViewerMounted == modal.isRendered /\ ActiveEntityExists

\* the array of the entity's media is the same object on every render
ViewerMediaProp == Some(entityModal.activeEntityId)

entityEffectPending == entityModal.seen # EntityDeps

modalEffectPending == modal.seenIsOpen # EntityIsOpen

viewerEffectPending == ViewerMounted /\ imageViewer.seenMedia # ViewerMediaProp

EffectPending == entityEffectPending \/ modalEffectPending \/ viewerEffectPending

\* the ImageViewer as it mounts: useState(0), no effect run yet
ViewerUnmounted == [currentImageIndex |-> 0, seenMedia |-> None]

\* EntityModal, lines 26-32
entityModalEffect ==
    /\ entityEffectPending
    /\ entityModal' = IF EntityIsOpen
                      THEN [activeEntityId |-> EntityIdProp, navigationHistory |-> <<>>,
                            seen |-> EntityDeps]
                      ELSE [entityModal EXCEPT !.seen = EntityDeps]
    /\ UNCHANGED <<nonModalVars, modalState, underlyingModalState, modal, imageViewer>>

\* the timers left pending by the effect that keeps no cleanup
modalEffectTimers_noCleanup(timers, wasOpen, isOpen) ==
    timers \cup {IF isOpen THEN "show" ELSE "hide"}

\* Modal, lines 19-20 and 24-25: the cleanup of the previous run clears its
\* timer, then the effect starts the timer of the new isOpen
modalEffectTimers(timers, wasOpen, isOpen) ==
    (timers \ {IF wasOpen THEN "show" ELSE "hide"}) \cup {IF isOpen THEN "show" ELSE "hide"}

\* Modal, lines 15-27
modalEffect ==
    /\ modalEffectPending
    /\ modal' = [isRendered |-> IF EntityIsOpen THEN TRUE ELSE modal.isRendered,
                 isVisible |-> IF EntityIsOpen THEN modal.isVisible ELSE FALSE,
                 timers |-> modalEffectTimers(modal.timers, modal.seenIsOpen, EntityIsOpen),
                 seenIsOpen |-> EntityIsOpen]
    /\ UNCHANGED <<nonModalVars, modalState, underlyingModalState, entityModal, imageViewer>>

\* Modal, line 19 (10 ms) and line 24 (300 ms)
modalTimerFires(timer) ==
    /\ ~EffectPending
    /\ timer \in modal.timers
    /\ modal' = [modal EXCEPT !.timers = @ \ {timer},
                              !.isVisible = IF timer = "show" THEN TRUE ELSE @,
                              !.isRendered = IF timer = "hide" THEN FALSE ELSE @]
    /\ imageViewer' = IF timer = "hide" THEN ViewerUnmounted ELSE imageViewer
    /\ UNCHANGED <<nonModalVars, modalState, underlyingModalState, entityModal>>

\* ImageViewer, lines 17-19
imageViewerEffect ==
    /\ viewerEffectPending
    /\ imageViewer' = [currentImageIndex |-> 0, seenMedia |-> ViewerMediaProp]
    /\ UNCHANGED <<nonModalVars, modalState, underlyingModalState, entityModal, modal>>

\* the page behind the modals can be clicked while no modal covers it
PageReachable == modalState.type = "none" /\ ~modal.isRendered

\* App, lines 537, 548, 592
openEntity(entityId) ==
    /\ ~EffectPending
    /\ PageReachable
    /\ keyData # Null
    /\ entityId \in DOMAIN keyData.allEntities
    /\ modalState' = [type |-> "entity", entityId |-> entityId]
    /\ UNCHANGED <<nonModalVars, underlyingModalState, entityModal, modal, imageViewer>>

\* App, lines 529, 541
openFeatureImage(featureId) ==
    /\ ~EffectPending
    /\ PageReachable
    /\ keyData # Null
    /\ featureId \in DOMAIN keyData.featureMedia
    /\ modalState' = [type |-> "featureImage", featureId |-> featureId]
    /\ UNCHANGED <<nonModalVars, underlyingModalState, entityModal, modal, imageViewer>>

\* App, lines 504 and 516
openPlain(type) ==
    /\ ~EffectPending
    /\ PageReachable
    /\ type = "keyInfo" => keyData # Null
    /\ modalState' = [type |-> type]
    /\ UNCHANGED <<nonModalVars, underlyingModalState, entityModal, modal, imageViewer>>

\* App, lines 459-460: onClose={() => setModalState({ type: 'none' })}
closePlain ==
    /\ ~EffectPending
    /\ modalState.type \in {"keyInfo", "preferences"}
    /\ modalState' = [type |-> "none"]
    /\ UNCHANGED <<nonModalVars, underlyingModalState, entityModal, modal, imageViewer>>

\* what a close leaves in underlyingModalState when it forgets to clear it
closedUnderlying_keepsSaved(saved) == saved

\* App, lines 408 and 411: setUnderlyingModalState(null)
closedUnderlying(saved) == Null

\* App, lines 405-413; reachable from the backdrop, the close button and Escape
\* of the entity modal (also while it fades out), of the feature image modal
\* and of the lightbox
handleModalClose ==
    /\ ~EffectPending
    /\ modalState.type \in {"entity", "featureImage", "lightbox"} \/ modal.isRendered
    /\ IF modalState.type = "lightbox" /\ underlyingModalState # Null
       THEN modalState' = underlyingModalState
       ELSE modalState' = [type |-> "none"]
    /\ underlyingModalState' = closedUnderlying(underlyingModalState)
    /\ UNCHANGED <<nonModalVars, entityModal, modal, imageViewer>>

\* App, lines 415-418
handleOpenLightbox(media, startIndex) ==
    /\ underlyingModalState' = modalState
    /\ modalState' = [type |-> "lightbox", media |-> media, startIndex |-> startIndex]
    /\ UNCHANGED <<nonModalVars, entityModal, modal, imageViewer>>

\* ImageViewer, line 35: the image of EntityModal's viewer is clicked; the
\* lightbox (fixed inset-0 z-50) covers the viewer while it is open
viewerImageClick ==
    /\ ~EffectPending
    /\ ViewerMounted
    /\ modalState.type # "lightbox"
    /\ imageViewer.currentImageIndex + 1 \in DOMAIN ViewerMedia
    /\ handleOpenLightbox(ViewerMedia, imageViewer.currentImageIndex)

\* FeatureImageModal's viewer: the image is clicked
featureImageClick ==
    /\ ~EffectPending
    /\ modalState.type = "featureImage"
    /\ handleOpenLightbox(keyData.featureMedia[modalState.featureId], 0)

\* EntityModal, lines 113-116, from the hierarchy buttons of line 168
handleNavigate(newEntityId) ==
    /\ ~EffectPending
    /\ ViewerMounted
    /\ modalState.type # "lightbox"
    /\ \E i \in 1..(Len(entityHierarchy) - 1) : entityHierarchy[i] = newEntityId
    /\ entityModal' = [entityModal EXCEPT
                          !.navigationHistory = Append(@, entityModal.activeEntityId),
                          !.activeEntityId = newEntityId]
    /\ UNCHANGED <<nonModalVars, modalState, underlyingModalState, modal, imageViewer>>

\* EntityModal, lines 118-124
handleBack ==
    /\ ~EffectPending
    /\ ViewerMounted
    /\ modalState.type # "lightbox"
    /\ Len(entityModal.navigationHistory) > 0
    /\ entityModal' = [entityModal EXCEPT
                          !.navigationHistory = SubSeq(@, 1, Len(@) - 1),
                          !.activeEntityId = entityModal.navigationHistory[
                                                Len(entityModal.navigationHistory)]]
    /\ UNCHANGED <<nonModalVars, modalState, underlyingModalState, modal, imageViewer>>

\* ImageViewer, lines 38-39 and 53; indices are 0-based as in the code
setCurrentImageIndex(index) ==
    /\ ~EffectPending
    /\ ViewerMounted
    /\ modalState.type # "lightbox"
    /\ Len(ViewerMedia) > 1
    /\ imageViewer' = [imageViewer EXCEPT !.currentImageIndex = index]
    /\ UNCHANGED <<nonModalVars, modalState, underlyingModalState, entityModal, modal>>

previousImage ==
    setCurrentImageIndex((imageViewer.currentImageIndex - 1 + Len(ViewerMedia))
                            % Len(ViewerMedia))

nextImage == setCurrentImageIndex((imageViewer.currentImageIndex + 1) % Len(ViewerMedia))

thumbnailClick(i) == i < Len(ViewerMedia) /\ setCurrentImageIndex(i)

\* a key whose entity E2, child of E1, has two images; E1 and S1 have one
ViewerDoc ==
    [LoadDoc EXCEPT
        !.media = <<[hasDetails |-> TRUE, media_path |-> "a.jpg", item_id |-> "E2",
                     caption |-> "a"],
                    [hasDetails |-> TRUE, media_path |-> "b.jpg", item_id |-> "E2",
                     caption |-> "b"],
                    [hasDetails |-> TRUE, media_path |-> "c.jpg", item_id |-> "E1",
                     caption |-> "c"],
                    [hasDetails |-> TRUE, media_path |-> "c.jpg", item_id |-> "S1",
                     caption |-> "s"]>>]

ViewerArchive ==
    ArchiveOf(ViewerDoc, LoadScoDoc,
              BlobEntry("a.jpg", "ok") @@ BlobEntry("b.jpg", "ok") @@ BlobEntry("c.jpg", "ok"))

InitModals ==
    /\ keyData = processKeyFromZip(NewLoad(ViewerArchive)).data
    /\ chosenFeatures = <<>>
    /\ isLoading = FALSE
    /\ error = NoError
    /\ matches = computeMatches(keyData, chosenFeatures)
    /\ loads = <<>>
    /\ lastSettled = NotSettled
    /\ UiInit

NextModals ==
    \/ entityModalEffect
    \/ modalEffect
    \/ imageViewerEffect
    \/ \E timer \in {"show", "hide"} : modalTimerFires(timer)
    \/ \E entityId \in {"E1", "E2"} : openEntity(entityId)
    \/ openFeatureImage("S1")
    \/ \E type \in {"keyInfo", "preferences"} : openPlain(type)
    \/ closePlain
    \/ handleModalClose
    \/ viewerImageClick
    \/ featureImageClick
    \/ \E newEntityId \in {"E1", "E2"} : handleNavigate(newEntityId)
    \/ handleBack
    \/ previousImage
    \/ nextImage
    \/ \E i \in 0..1 : thumbnailClick(i)

SpecModals == InitModals /\ [][NextModals]_vars

\* React runs the effects of a commit before anything else happens, and the
\* browser runs the callback of a pending timer once its delay is over, however
\* often an event and its effects come first
SpecModalsFair ==
    /\ SpecModals
    /\ WF_vars(entityModalEffect)
    /\ WF_vars(modalEffect)
    /\ WF_vars(imageViewerEffect)
    /\ \A timer \in {"show", "hide"} : SF_vars(modalTimerFires(timer))

(***************************************************************************)
(* The search of the "entities remaining" panel (EntitiesPanel).  A search *)
(* term and a name are sequences of characters.                            *)
(***************************************************************************)

\* the characters of the entity names of SearchDoc
Chars(name) ==
    CASE name = "Ab" -> <<"A", "b">>
      [] name = "Ba" -> <<"B", "a">>
      [] name = "b" -> <<"b">>
      [] name = "a" -> <<"a">>
      [] OTHER -> <<>>

\* String.prototype.toLowerCase on the letters used
toLowerCase(s) ==
    [i \in DOMAIN s |-> CASE s[i] = "A" -> "a" [] s[i] = "B" -> "b" [] OTHER -> s[i]]

\* String.prototype.includes
includes(s, searchString) ==
    \E i \in 0..(Len(s) - Len(searchString)) :
        SubSeq(s, i + 1, i + Len(searchString)) = searchString

\* FeaturesPanel.tsx, lines 146-159; acc carries subtreeHasMatch of this call
\* and the sets newMatching and newExpanded
RECURSIVE findMatches(_, _, _, _)
findMatches(nodes, parents, lowerCaseSearchTerm, acc) ==
    IF nodes = <<>> THEN acc
    ELSE LET node == Head(nodes)
             selfMatches == includes(toLowerCase(Chars(node.name)), lowerCaseSearchTerm)
             inner == IF node.isGroup
                      THEN findMatches(node.children,
                                       IF selfMatches THEN Append(parents, node.id)
                                       ELSE parents,
                                       lowerCaseSearchTerm,
                                       [acc EXCEPT !.subtreeHasMatch = FALSE])
                      ELSE [acc EXCEPT !.subtreeHasMatch = FALSE]
             childrenMatch == inner.subtreeHasMatch
             hit == selfMatches \/ childrenMatch
         IN findMatches(Tail(nodes), parents, lowerCaseSearchTerm,
                [subtreeHasMatch |-> acc.subtreeHasMatch \/ hit,
                 newMatching |-> IF selfMatches THEN inner.newMatching \cup {node.id}
                                 ELSE inner.newMatching,
                 newExpanded |-> IF hit
                                 THEN inner.newExpanded \cup {parents[i] : i \in DOMAIN parents}
                                 ELSE inner.newExpanded])

\* App, line 534: the entityTree prop of the panel
PanelTree == IF keyData = Null THEN <<>> ELSE remainingTree

\* the dependencies [searchTerm, entityTree] of the search effect
SearchDeps == Some(<<entitiesPanel.searchTerm, PanelTree>>)

\* the effect runs again after a render in which the term or the tree changed,
\* or after one caused by a change of the expanded nodes (the tree is then a
\* new array).  A run that follows the effect's own setExpandedNodes gives the
\* same sets again and is a stuttering step.
searchEffectPending == entitiesPanel.seen # SearchDeps

\* Panel.tsx line 27, FeaturesPanel.tsx line 198: onSearch={setSearchTerm}
onSearch(term) ==
    /\ ~searchEffectPending
    /\ term # entitiesPanel.searchTerm
    /\ entitiesPanel' = [entitiesPanel EXCEPT !.searchTerm = term]
    /\ UNCHANGED <<appVars, aiChatHistory, assistantVars, modalVars, expandedRemainingNodes>>

\* FeaturesPanel.tsx, lines 133-164
searchEffect ==
    /\ searchEffectPending
    /\ IF entitiesPanel.searchTerm = <<>>
       THEN /\ entitiesPanel' = [entitiesPanel EXCEPT !.matchingIds = None,
                                                      !.seen = SearchDeps]
            /\ expandedRemainingNodes' = IF entitiesPanel.matchingIds # None THEN {}
                                         ELSE expandedRemainingNodes
       ELSE LET found == findMatches(PanelTree, <<>>,
                                     toLowerCase(entitiesPanel.searchTerm),
                                     [subtreeHasMatch |-> FALSE, newMatching |-> {},
                                      newExpanded |-> {}])
            IN /\ entitiesPanel' = [entitiesPanel EXCEPT
                                        !.matchingIds = Some(found.newMatching),
                                        !.seen = SearchDeps]
               /\ expandedRemainingNodes' = found.newExpanded
    /\ UNCHANGED <<appVars, aiChatHistory, assistantVars, modalVars>>

\* FeaturesPanel.tsx, lines 166-173; the chevron of line 259 is shown on a
\* rendered group that has children
handleToggleNode(id) ==
    /\ ~searchEffectPending
    /\ expandedRemainingNodes' = IF id \in expandedRemainingNodes
                                 THEN expandedRemainingNodes \ {id}
                                 ELSE expandedRemainingNodes \cup {id}
    /\ entitiesPanel' = [entitiesPanel EXCEPT !.seen = None]
    /\ UNCHANGED <<appVars, aiChatHistory, assistantVars, modalVars>>

\* the nodes of a tree, each with the ids of its ancestors
RECURSIVE NodesWithAncestors(_, _)
NodesWithAncestors(nodes, ancestors) ==
    IF nodes = <<>> THEN {}
    ELSE LET node == Head(nodes)
         IN {[id |-> node.id, name |-> node.name, isGroup |-> node.isGroup,
              hasChildren |-> Len(node.children) > 0, ancestors |-> ancestors]}
            \cup NodesWithAncestors(node.children, ancestors \cup {node.id})
            \cup NodesWithAncestors(Tail(nodes), ancestors)

\* RenderEntityNode, lines 248-293: a node is rendered when all the groups
\* above it are expanded
RenderedNodes ==
    {n \in NodesWithAncestors(PanelTree, {}) : n.ancestors \subseteq expandedRemainingNodes}

\* a key with the groups Ab > Ba > b and the entity a
SearchDoc ==
    [LoadDoc EXCEPT
        !.entity_tree = <<[parent |-> 0, item_id |-> "E1", item_name |-> "Ab"],
                          [parent |-> 1, item_id |-> "E2", item_name |-> "Ba"],
                          [parent |-> 2, item_id |-> "E3", item_name |-> "b"],
                          [parent |-> 0, item_id |-> "E4", item_name |-> "a"]>>,
        !.media = <<>>]

SearchLetters == {"a", "b", "A", "B", "x"}

\* the texts typed into the search field
SearchTerms == UNION {[1..n -> SearchLetters] : n \in 0..MaxTermLen}

InitSearch ==
    /\ keyData = processKeyFromZip(NewLoad(ArchiveOf(SearchDoc, LoadScoDoc, EmptyMap))).data
    /\ chosenFeatures = <<>>
    /\ isLoading = FALSE
    /\ error = NoError
    /\ matches = computeMatches(keyData, chosenFeatures)
    /\ loads = <<>>
    /\ lastSettled = NotSettled
    /\ UiInit

NextSearch ==
    \/ \E term \in SearchTerms : onSearch(term)
    \/ searchEffect
    \/ \E n \in RenderedNodes : n.isGroup /\ n.hasChildren /\ handleToggleNode(n.id)

SpecSearch == InitSearch /\ [][NextSearch]_vars

(***************************************************************************)
(* Vocabulary of the properties.                                           *)
(***************************************************************************)
\* every node of a forest, at any depth
RECURSIVE NodesOf(_)
NodesOf(nodes) ==
    IF nodes = <<>> THEN {}
    ELSE {Head(nodes)} \cup NodesOf(Head(nodes).children) \cup NodesOf(Tail(nodes))

\* the ids of the proper descendants of a node
DescendantIds(node) == {n.id : n \in NodesOf(node.children)}

AllEntityIds == DOMAIN keyData.allEntities

HasScore(entityId, featureId) == featureId \in DOMAIN keyData.entityScores[entityId]

StoredScore(entityId, featureId) == keyData.entityScores[entityId][featureId]

\* the chosen entries on features of kind type
ChosenOfType(type) ==
    {i \in DOMAIN chosenFeatures :
        /\ chosenFeatures[i].id \in DOMAIN keyData.allFeatures
        /\ keyData.allFeatures[chosenFeatures[i].id].type = type}

\* every reordering of a sequence
Reorderings(s) == {[i \in DOMAIN s |-> s[f[i]]] : f \in Permutations(DOMAIN s)}

\* every reordering of the siblings of a forest, at every depth
RECURSIVE SiblingOrders(_)
RECURSIVE ChildOrders(_)
SiblingOrders(nodes) ==
    UNION {Reorderings(kids) : kids \in ChildOrders(nodes)}

\* the forests got from nodes by reordering below each node, position by position
ChildOrders(nodes) ==
    IF nodes = <<>> THEN {<<>>}
    ELSE {<<[Head(nodes) EXCEPT !.children = c]>> \o rest :
             c \in SiblingOrders(Head(nodes).children), rest \in ChildOrders(Tail(nodes))}

(***************************************************************************)
(* Properties.                                                             *)
(***************************************************************************)
\* C1: with an empty chosen-constraint map, direct is the set of all entity
\* ids of the catalog and indirect and discarded are empty.
C1_EmptyConstraints ==
    (keyData # Null /\ Len(chosenFeatures) = 0) =>
        /\ matches.directMatches = AllEntityIds
        /\ matches.indirectMatches = {}
        /\ matches.discardedEntityIds = {}

\* C1 witness: a loaded model with groups, whose constraint map is empty
C1_Witness ==
    /\ keyData # Null
    /\ Len(chosenFeatures) = 0
    /\ Cardinality(AllEntityIds) = MaxNodes
    /\ \E n \in NodesOf(keyData.entityTree) : n.isGroup
    /\ \E id \in AllEntityIds : keyData.entityScores[id] = EmptyMap
    /\ matches.directMatches = AllEntityIds

\* C2: a chosen state constraint on F mismatches E exactly when E has no
\* score for F or the stored code is "0": such an E is always directly
\* discarded, and when the state constraint is the only one chosen no other
\* entity is (codes "1" to "5" never discard).
C2_StateMismatch ==
    keyData # Null =>
        \A i \in ChosenOfType("state") : \A id \in AllEntityIds :
            LET F == chosenFeatures[i].id
                absent == ~HasScore(id, F) \/ ScoreValue(StoredScore(id, F)) = "0"
            IN /\ absent => id \in matches.directlyDiscarded
               /\ Len(chosenFeatures) = 1 => (id \in matches.directlyDiscarded <=> absent)

\* C2 witness: one state constraint; an entity scored "0" is discarded and an
\* entity scored "3" (uncertain) is a direct match
C2_Witness ==
    /\ keyData # Null
    /\ Len(chosenFeatures) = 1
    /\ chosenFeatures[1].id = "S1"
    /\ \E a, b \in AllEntityIds :
          /\ HasScore(a, "S1") /\ StoredScore(a, "S1") = [value |-> "0"]
          /\ HasScore(b, "S1") /\ StoredScore(b, "S1") = [value |-> "3"]
          /\ a \in matches.discardedEntityIds \cup matches.indirectMatches
          /\ a \in matches.directlyDiscarded
          /\ b \in matches.directMatches

\* the stored score of E for F is a NumericScore whose bounds are numbers
NumericRange(id, F) ==
    /\ "min" \in DOMAIN StoredScore(id, F)
    /\ ~isNaN(StoredScore(id, F).min)
    /\ ~isNaN(StoredScore(id, F).max)

\* C3: a chosen numeric constraint on F with value v mismatches E exactly when
\* E has no score for F, or v does not parse as a number, or the parsed v is
\* outside the closed interval [min, max] of E's NumericScore (v = min and
\* v = max match): such an E is always directly discarded, and when the
\* numeric constraint is the only one chosen no other entity is.
C3_NumericMismatch ==
    keyData # Null =>
        \A i \in ChosenOfType("numeric") : \A id \in AllEntityIds :
            LET F == chosenFeatures[i].id
                v == parseFloat(String(chosenFeatures[i].value))
                mismatch ==
                    \/ ~HasScore(id, F)
                    \/ isNaN(v)
                    \/ ~(StoredScore(id, F).min.v <= v.v /\ v.v <= StoredScore(id, F).max.v)
            IN (HasScore(id, F) => NumericRange(id, F)) =>
                  /\ mismatch => id \in matches.directlyDiscarded
                  /\ Len(chosenFeatures) = 1 => (id \in matches.directlyDiscarded <=> mismatch)

\* C3 witness: one numeric constraint whose value is min of one entity's range
\* [2, 3] (a direct match) while the other entity has no score (discarded)
C3_Witness ==
    /\ keyData # Null
    /\ Len(chosenFeatures) = 1
    /\ chosenFeatures[1].id = "N1"
    /\ parseFloat(String(chosenFeatures[1].value)) = Number(2)
    /\ \E a, b \in AllEntityIds :
          /\ HasScore(a, "N1") /\ StoredScore(a, "N1") = [min |-> Number(2), max |-> Number(3)]
          /\ a \in matches.directMatches
          /\ ~HasScore(b, "N1")
          /\ b \in matches.directlyDiscarded

\* C3 witness of the unparseable value: a numeric constraint whose value is no
\* number discards an entity that has a range
C3_WitnessUnparseable ==
    /\ keyData # Null
    /\ Len(chosenFeatures) = 1
    /\ chosenFeatures[1].id = "N1"
    /\ isNaN(parseFloat(String(chosenFeatures[1].value)))
    /\ \E a \in AllEntityIds :
          /\ HasScore(a, "N1") /\ NumericRange(a, "N1")
          /\ a \in matches.directlyDiscarded

\* C4: with a non-empty constraint set, every group node that is not a direct
\* match but has a descendant (at any depth) that is a direct match is in
\* indirect.
C4_AncestorsIndirect ==
    (keyData # Null /\ Len(chosenFeatures) > 0) =>
        \A g \in NodesOf(keyData.entityTree) :
            (/\ g.isGroup
             /\ g.id \notin matches.directMatches
             /\ DescendantIds(g) \cap matches.directMatches # {})
            => g.id \in matches.indirectMatches

\* C5: direct, indirect and discarded are pairwise disjoint, their union is
\* the set of all entity ids, direct is all ids minus the directly discarded
\* and discarded is all ids minus (direct union indirect).
C5_Partition ==
    keyData # Null =>
        /\ matches.directMatches \cap matches.indirectMatches = {}
        /\ matches.directMatches \cap matches.discardedEntityIds = {}
        /\ matches.indirectMatches \cap matches.discardedEntityIds = {}
        /\ matches.directMatches \cup matches.indirectMatches
             \cup matches.discardedEntityIds = AllEntityIds
        /\ matches.directMatches = AllEntityIds \ matches.directlyDiscarded
        /\ matches.discardedEntityIds =
             AllEntityIds \ (matches.directMatches \cup matches.indirectMatches)

\* C5 witness: all three sets are non-empty, and a direct match is a group
\* with a directly matching child
C5_Witness ==
    /\ keyData # Null
    /\ matches.directMatches # {}
    /\ matches.indirectMatches # {}
    /\ matches.discardedEntityIds # {}
    /\ \E g \in NodesOf(keyData.entityTree) :
          /\ g.id \in matches.directMatches
          /\ \E i \in DOMAIN g.children : g.children[i].id \in matches.directMatches

\* C6: the computation gives the same three sets whatever the order of the
\* chosen constraints and of the sibling nodes of the entity tree.
C6_OrderIndependent ==
    keyData # Null =>
        \A chosen \in Reorderings(chosenFeatures) :
            \A tree \in SiblingOrders(keyData.entityTree) :
                computeMatches([keyData EXCEPT !.entityTree = tree], chosen) = matches

\* C6 witness: two constraints of which an entity fails only the second, in a
\* tree with two roots
C6_Witness ==
    /\ keyData # Null
    /\ Len(chosenFeatures) = 2
    /\ Len(keyData.entityTree) >= 2
    /\ \E id \in AllEntityIds :
          /\ ~isMismatch(keyData, id, chosenFeatures[1].id, chosenFeatures[1])
          /\ isMismatch(keyData, id, chosenFeatures[2].id, chosenFeatures[2])
          /\ id \in matches.directlyDiscarded

\* the elements of a sequence
Range(seq) == {seq[i] : i \in DOMAIN seq}

\* the archive has its data directory and a readable key.data
KeyReadable(archive) ==
    /\ ~archive.corrupt
    /\ DataDirPath \in DOMAIN archive.files
    /\ readFromInnerZip(archive.files, InnerDataZipPath, "key.data") # None

NoScoArchive(archive) == InnerScoZipPath \notin DOMAIN archive.files

\* the nested .sco archive is there, but normal.sco cannot be found or read
NormalScoUnreadable(archive) ==
    /\ ~NoScoArchive(archive)
    /\ \/ archive.files[InnerScoZipPath].corrupt
       \/ "normal.sco" \notin DOMAIN archive.files[InnerScoZipPath].files

AllScoresEmpty(data) ==
    /\ DOMAIN data.entityScores = DOMAIN data.allEntities
    /\ \A id \in DOMAIN data.entityScores : data.entityScores[id] = EmptyMap

\* the state of the binary file of media item m in the archive
FileState(archive, m) ==
    IF MediaFullPath(m.media_path) \notin DOMAIN archive.files THEN "missing"
    ELSE IF archive.files[MediaFullPath(m.media_path)].readable THEN "ok"
    ELSE "unreadable"

\* media item m is in the media list of its entity or feature
Attached(data, m) ==
    LET mediaData == [url |-> MediaFullPath(m.media_path), caption |-> m.caption] IN
    \/ m.item_id \in DOMAIN data.entityMedia /\ mediaData \in Range(data.entityMedia[m.item_id])
    \/ m.item_id \in DOMAIN data.featureMedia /\ mediaData \in Range(data.featureMedia[m.item_id])

\* C7: after a load that failed because the data directory, the nested .data
\* archive or key.data is missing, the current model is null and the error is
\* set.
C7_FailedLoadLeavesNoModel ==
    (lastSettled.outcome = "rejected" /\ lastSettled.message \in {ErrNoDataDir, ErrNoKeyData})
        => (keyData = Null /\ error = lastSettled.message)

\* C8 as claimed: a load of an archive without the nested .sco archive never
\* gets past score parsing (it fails and produces no model).
C8_MissingScoArchiveFatal ==
    \A i \in DOMAIN loads :
        NoScoArchive(loads[i].archive) => loads[i].pc \notin {"media", "return"}

\* C8 as amended: a load of an archive that lacks only the nested .sco archive
\* never throws; it logs the console warning of a missing normal.sco and goes
\* on with an empty score map for every entity.
C8_MissingScoArchiveNonFatal ==
    \A i \in DOMAIN loads :
        (KeyReadable(loads[i].archive) /\ NoScoArchive(loads[i].archive)) =>
            /\ loads[i].pc # "throw"
            /\ loads[i].pc \in {"media", "return"} =>
                  /\ AllScoresEmpty(loads[i].data)
                  /\ WarnNoScores \in Range(loads[i].console)

\* C8 witness: processKeyFromZip returns for an archive without the .sco archive
C8_Witness ==
    \E i \in DOMAIN loads :
        /\ NoScoArchive(loads[i].archive)
        /\ loads[i].pc = "return"
        /\ DOMAIN loads[i].data.allEntities = {"E1", "E2"}
        /\ AllScoresEmpty(loads[i].data)

C10_MediaFailureLogged ==
    \A i \in DOMAIN loads :
        loads[i].pc = "return" =>
            \A m \in Range(loads[i].keyDoc.media) :
                IF FileState(loads[i].archive, m) = "ok"
                THEN Attached(loads[i].data, m)
                ELSE /\ ~Attached(loads[i].data, m)
                     /\ ErrNotFound(MediaFullPath(m.media_path))
                           \in Range(loads[i].data.parsingErrors)

\* C10 as amended: a media item whose file is absent or unreadable does not
\* abort the load and is not attached, while every other item is attached to
\* its entity or feature; parsingErrors gets one entry per absent file and
\* none for an unreadable file, which is reported on the console only.
C10_MediaFailureNonFatal ==
    \A i \in DOMAIN loads :
        /\ (KeyReadable(loads[i].archive) => loads[i].pc # "throw")
        /\ loads[i].pc = "return" =>
              /\ \A m \in Range(loads[i].keyDoc.media) :
                    /\ Attached(loads[i].data, m) <=> FileState(loads[i].archive, m) = "ok"
                    /\ ErrNotFound(MediaFullPath(m.media_path))
                          \in Range(loads[i].data.parsingErrors)
                       <=> FileState(loads[i].archive, m) = "missing"
                    /\ FileState(loads[i].archive, m) = "unreadable"
                          => ErrBlob(MediaFullPath(m.media_path)) \in Range(loads[i].console)
              /\ Len(loads[i].data.parsingErrors) =
                    Cardinality({k \in DOMAIN loads[i].keyDoc.media :
                                    FileState(loads[i].archive, loads[i].keyDoc.media[k])
                                        = "missing"})

\* C10 witness: processKeyFromZip returns for an archive in which the first
\* media file is absent and the second unreadable; the third is attached
C10_Witness ==
    \E i \in DOMAIN loads :
        /\ loads[i].pc = "return"
        /\ FileState(loads[i].archive, loads[i].keyDoc.media[1]) = "missing"
        /\ FileState(loads[i].archive, loads[i].keyDoc.media[2]) = "unreadable"
        /\ FileState(loads[i].archive, loads[i].keyDoc.media[3]) = "ok"
        /\ ~Attached(loads[i].data, loads[i].keyDoc.media[1])
        /\ ~Attached(loads[i].data, loads[i].keyDoc.media[2])
        /\ Attached(loads[i].data, loads[i].keyDoc.media[3])
        /\ Len(loads[i].data.parsingErrors) = 1

\* C11: an entity without a score for the feature id of a chosen constraint
\* is directly discarded, for every constraint of the chosen map; with every
\* score map empty, a non-empty constraint map leaves no direct match.
C11_UnscoredMismatch ==
    keyData # Null =>
        /\ \A i \in DOMAIN chosenFeatures : \A id \in AllEntityIds :
              ~HasScore(id, chosenFeatures[i].id) => id \in matches.directlyDiscarded
        /\ (AllScoresEmpty(keyData) /\ Len(chosenFeatures) > 0) => matches.directMatches = {}

\* C19: whenever a returned model is installed as the current model, the
\* chosen-constraint map is empty.
C19_InstallFindsNoConstraints ==
    [][(\E i \in DOMAIN loads : LoadResolved(i)) => Len(chosenFeatures') = 0]_vars

\* element k of a tree document and every element above it has an id of the
\* catalog (k = 0: the root of the tree)
RECURSIVE Kept(_, _, _)
Kept(tree, k, catalog) ==
    k = 0 \/ (tree[k].item_id \in DOMAIN catalog /\ Kept(tree, tree[k].parent, catalog))

\* built holds exactly the elements of the document that are kept, each under
\* the node of its parent element
TreeFaithful(tree, built, catalog) ==
    /\ \A n \in NodesOf(built) : n.id \in DOMAIN catalog
    /\ {n.id : n \in NodesOf(built)} =
          {tree[k].item_id : k \in {j \in DOMAIN tree : Kept(tree, j, catalog)}}
    /\ \A k \in DOMAIN tree :
          ~Kept(tree, k, catalog) => \A n \in NodesOf(built) : n.id # tree[k].item_id
    /\ \A j \in DOMAIN built :
          \E k \in DOMAIN tree : tree[k].item_id = built[j].id /\ tree[k].parent = 0
    /\ \A n \in NodesOf(built) : \A j \in DOMAIN n.children :
          \E k, c \in DOMAIN tree :
              /\ tree[k].item_id = n.id
              /\ tree[c].item_id = n.children[j].id
              /\ tree[c].parent = k

\* C12: in the model a load returns, every node id of featureTree is a key of
\* the feature catalog and every node id of entityTree a key of the entity
\* catalog; an element whose id is not in the catalog is dropped with all the
\* elements below it, and the kept elements stay under their own parents.
C12_TreesWithinCatalogs ==
    \A i \in DOMAIN loads :
        loads[i].pc = "return" =>
            /\ TreeFaithful(loads[i].keyDoc.feature_tree, loads[i].data.featureTree,
                            loads[i].data.allFeatures)
            /\ TreeFaithful(loads[i].keyDoc.entity_tree, loads[i].data.entityTree,
                            loads[i].data.allEntities)

\* C12 witness: a returned model whose document has a state under a text
\* feature: the state is in the catalog and in no node of featureTree
C12_Witness ==
    \E i \in DOMAIN loads :
        /\ loads[i].pc = "return"
        /\ \E k, c \in DOMAIN loads[i].keyDoc.feature_tree :
              /\ loads[i].keyDoc.feature_tree[c].parent = k
              /\ loads[i].keyDoc.features[k].score_type = "text"
              /\ loads[i].keyDoc.feature_tree[c].item_id \in DOMAIN loads[i].data.allFeatures
              /\ \A n \in NodesOf(loads[i].data.featureTree) :
                    n.id # loads[i].keyDoc.feature_tree[c].item_id
        /\ loads[i].data.featureTree # <<>>

\* the positions of the nodes of a forest: sequences of child indexes
RECURSIVE NodePaths(_)
NodePaths(nodes) ==
    UNION {{<<i>>} \cup {<<i>> \o q : q \in NodePaths(nodes[i].children)} : i \in DOMAIN nodes}

RECURSIVE NodeAt(_, _)
NodeAt(nodes, path) ==
    IF Len(path) = 1 THEN nodes[path[1]]
    ELSE NodeAt(nodes[path[1]].children, Tail(path))

\* a feature whose children are states
IsCategorical(n) ==
    /\ n.type # "numeric" /\ ~n.isState /\ Len(n.children) > 0
    /\ \A j \in DOMAIN n.children : n.children[j].isState

\* a feature whose children are features
IsPureGrouping(n) ==
    /\ n.type # "numeric" /\ ~n.isState /\ Len(n.children) > 0
    /\ \A j \in DOMAIN n.children : ~n.children[j].isState

\* the numeric and categorical nodes with only pure grouping nodes above them
ScorableNodes(tree) ==
    {path \in NodePaths(tree) :
        /\ NodeAt(tree, path).type = "numeric" \/ IsCategorical(NodeAt(tree, path))
        /\ \A n \in 1..(Len(path) - 1) : IsPureGrouping(NodeAt(tree, SubSeq(path, 1, n)))}

\* states are leaves, and the children of a node are all states or all features
WellFormedFeatureTree(tree) ==
    \A n \in NodesOf(tree) :
        /\ n.isState => n.children = <<>>
        /\ \/ \A j \in DOMAIN n.children : n.children[j].isState
           \/ \A j \in DOMAIN n.children : ~n.children[j].isState

\* C13 as claimed: for every feature tree, the scorable-feature count of a
\* returned model is the number of numeric nodes and categorical nodes (nodes
\* whose children are states) reached through pure grouping nodes only; no
\* state node is counted.
C13_ScorableCountAnyTree ==
    \A i \in DOMAIN loads :
        loads[i].pc = "return" =>
            loads[i].data.totalFeaturesCount =
                Cardinality(ScorableNodes(loads[i].data.featureTree))

\* C13 as amended: the scorable-feature count of a returned model is the
\* number of numeric nodes and categorical nodes (nodes whose children are
\* states) reached through pure grouping nodes only, for every feature tree in
\* which states are leaves and siblings are all states or all features.
C13_ScorableCount ==
    \A i \in DOMAIN loads :
        (loads[i].pc = "return" /\ WellFormedFeatureTree(loads[i].data.featureTree)) =>
            loads[i].data.totalFeaturesCount =
                Cardinality(ScorableNodes(loads[i].data.featureTree))

\* C13 witness: a grouping node over a categorical feature with one state;
\* the count is 1
C13_Witness ==
    \E i \in DOMAIN loads :
        /\ loads[i].pc = "return"
        /\ WellFormedFeatureTree(loads[i].data.featureTree)
        /\ loads[i].data.totalFeaturesCount = 1
        /\ Len(loads[i].data.featureTree) = 1
        /\ IsPureGrouping(loads[i].data.featureTree[1])
        /\ IsCategorical(loads[i].data.featureTree[1].children[1])
        /\ ScorableNodes(loads[i].data.featureTree) = {<<1, 1>>}

\* the six codes of ScoreType
StateCodes == {"0", "1", "2", "3", "4", "5"}

\* C15: every StateScore of the score table of a returned model has one of
\* the six codes as its value.
C15_StateCodes ==
    \A i \in DOMAIN loads :
        loads[i].pc = "return" =>
            \A e \in DOMAIN loads[i].data.entityScores :
                \A f \in DOMAIN loads[i].data.entityScores[e] :
                    "value" \in DOMAIN loads[i].data.entityScores[e][f]
                        => loads[i].data.entityScores[e][f].value \in StateCodes


C16_IndirectAreAncestors ==
    keyData # Null =>
        \A id \in matches.indirectMatches :
            /\ id \notin matches.directMatches
            /\ \E n \in NodesOf(keyData.entityTree) :
                /\ n.id = id
                /\ n.isGroup
                /\ DescendantIds(n) \cap matches.directMatches # {}
            /\ \A n \in NodesOf(keyData.entityTree) : n.id = id => n.isGroup

\* an indirect match next to a discarded group none of whose descendants matches
C16_Witness ==
    /\ keyData # Null
    /\ matches.indirectMatches # {}
    /\ \E n \in NodesOf(keyData.entityTree) :
        /\ n.isGroup
        /\ n.id \in matches.discardedEntityIds
        /\ DescendantIds(n) \cap matches.directMatches = {}
        /\ \E i \in DOMAIN keyData.entityTree : keyData.entityTree[i] = n

\* the passes of the loop of line 274 on the installed model
LoopStart ==
    [indirectMatches |-> {}, remainingIds |-> matches.directMatches, changedInLoop |-> FALSE]

LoopPasses == indirectPasses(keyData.entityTree, LoopStart)

\* remainingIds before pass k
RemainingBefore(k) ==
    IF k = 1 THEN LoopStart.remainingIds ELSE LoopPasses[k - 1].remainingIds

(***************************************************************************)
(* C17: the loop computing the indirect matches terminates: every pass     *)
(* that reports a change has added at least one id to remainingIds, the    *)
(* loop stops at the first pass that adds nothing, there are at most       *)
(* (number of tree nodes + 1) passes, and the indirect matches of the memo *)
(* are those of the last pass.                                             *)
(***************************************************************************)
C17_LoopTerminates ==
    (keyData # Null /\ Len(chosenFeatures) > 0) =>
        /\ Len(LoopPasses) >= 1
        /\ Len(LoopPasses) <= Cardinality(NodesOf(keyData.entityTree)) + 1
        /\ \A k \in 1..(Len(LoopPasses) - 1) :
            /\ LoopPasses[k].changedInLoop
            /\ RemainingBefore(k) \subseteq LoopPasses[k].remainingIds
            /\ RemainingBefore(k) # LoopPasses[k].remainingIds
        /\ ~LoopPasses[Len(LoopPasses)].changedInLoop
        /\ LoopPasses[Len(LoopPasses)].remainingIds = RemainingBefore(Len(LoopPasses))
        /\ LoopPasses[Len(LoopPasses)].indirectMatches = matches.indirectMatches

\* a pass that adds a group is followed by the pass that stops the loop
C17_Witness ==
    /\ keyData # Null
    /\ Len(chosenFeatures) > 0
    /\ Len(LoopPasses) >= 2
    /\ matches.indirectMatches # {}

\* what C18 states of filterEntityTree(nodes, allowedIds, directIds, directlyDiscarded)
ProjectionOk(nodes, allowedIds, directIds, directlyDiscarded) ==
    LET projected == filterEntityTree(nodes, allowedIds, directIds, directlyDiscarded)
        discardedSet == IF directlyDiscarded = None THEN {} ELSE directlyDiscarded[1]
    IN \A n \in NodesOf(projected) :
        /\ ~n.isGroup => n.id \in allowedIds
        /\ n.isGroup => (n.id \in directIds \/ Len(n.children) > 0)
        /\ n.id \notin allowedIds =>
               /\ "isDimmed" \in DOMAIN n
               /\ n.isDimmed = (n.id \notin discardedSet)
        /\ n.id \in allowedIds => "isDimmed" \notin DOMAIN n

\* the optional fourth argument: left out, or one of two sets
DiscardedArguments(allowedIds) == {None, Some({}), Some(AllEntityIds \ allowedIds)}

(***************************************************************************)
(* C18: the tree projected by filterEntityTree holds a non-group node only *)
(* if its id is in allowedIds; holds no group unless the group is in       *)
(* directIds or keeps at least one child; a kept group outside allowedIds  *)
(* is tagged dimmed exactly when it is not in the directly-discarded set;  *)
(* and no node inside allowedIds is tagged dimmed.  Checked for the two    *)
(* calls of App (both panels) in every state, and for every allowedIds     *)
(* over the entities of each loaded tree.                                  *)
(***************************************************************************)
C18_ProjectionFilters ==
    keyData # Null =>
        /\ ProjectionOk(keyData.entityTree,
                        matches.directMatches \cup matches.indirectMatches,
                        matches.directMatches, None)
        /\ ProjectionOk(keyData.entityTree, matches.discardedEntityIds, {},
                        Some(matches.directlyDiscarded))
        /\ Len(chosenFeatures) = 0 =>
               \A allowedIds \in SUBSET AllEntityIds :
                   \A directIds \in {{}, allowedIds} :
                       \A directlyDiscarded \in DiscardedArguments(allowedIds) :
                           ProjectionOk(keyData.entityTree, allowedIds, directIds,
                                        directlyDiscarded)

\* an indirect match with a discarded child: kept untagged among the remaining
\* entities without that child, kept as an ancestor that is not dimmed among the
\* discarded ones
C18_Witness ==
    /\ keyData # Null
    /\ \E n \in NodesOf(discardedTree) :
        /\ "isDimmed" \in DOMAIN n
        /\ ~n.isDimmed
        /\ n.id \in matches.indirectMatches
        /\ \E k \in NodesOf(remainingTree) :
            /\ k.id = n.id
            /\ k.isGroup
            /\ "isDimmed" \notin DOMAIN k
            /\ Len(k.children) > 0
            /\ DescendantIds(k) \cap DescendantIds(n) = {}

\* the call of processKeyFromZip of load l, run to its end
Settled(l) == processKeyFromZip(NewLoad(l.archive))

NoMediaAttached(l) ==
    /\ l.data.entityMedia = EmptyMap
    /\ l.data.featureMedia = EmptyMap
    /\ l.data.parsingErrors = <<>>
    /\ l.mediaIndex = 1

StructureBuilt(l) ==
    /\ l.data.allEntities = Settled(l).data.allEntities
    /\ l.data.allFeatures = Settled(l).data.allFeatures
    /\ l.data.entityTree = Settled(l).data.entityTree
    /\ l.data.featureTree = Settled(l).data.featureTree
    /\ l.data.totalFeaturesCount = Settled(l).data.totalFeaturesCount

(***************************************************************************)
(* C20: the stages of one load happen in a fixed order and do not overlap: *)
(* nothing is built before key.data is read; while the scores are parsed   *)
(* the catalogs and trees are final, no score is stored and no media is    *)
(* attached; while media are resolved the score table is final; and the    *)
(* model is returned only when every media item has been gone through.  A  *)
(* load that throws has attached no media.                                 *)
(***************************************************************************)
C20_StagesInOrder ==
    \A i \in DOMAIN loads :
        LET l == loads[i] IN
        /\ l.pc \in {"loadAsync", "readKey"} =>
               l.data = EmptyKeyData /\ l.keyDoc = EmptyDoc /\ l.mediaIndex = 1
        /\ l.pc = "scores" =>
               /\ StructureBuilt(l)
               /\ \A id \in DOMAIN l.data.entityScores : l.data.entityScores[id] = EmptyMap
               /\ NoMediaAttached(l)
        /\ l.pc \in {"media", "return"} =>
               /\ StructureBuilt(l)
               /\ l.data.entityScores = Settled(l).data.entityScores
               /\ l.mediaIndex <= Len(l.keyDoc.media) + 1
        /\ l.pc = "return" =>
               /\ l.mediaIndex = Len(l.keyDoc.media) + 1
               /\ l.data = Settled(l).data
        /\ l.pc = "throw" => NoMediaAttached(l)
        /\ ~NoMediaAttached(l) => l.pc \in {"media", "return"}

\* a load about to return with scores stored and media attached, all items done
C20_Witness ==
    \E i \in DOMAIN loads :
        /\ loads[i].pc = "return"
        /\ Len(loads[i].keyDoc.media) >= 2
        /\ loads[i].mediaIndex = Len(loads[i].keyDoc.media) + 1
        /\ loads[i].data.entityMedia # EmptyMap
        /\ \E id \in DOMAIN loads[i].data.entityScores :
               loads[i].data.entityScores[id] # EmptyMap


\* the media_item elements of load l that processMedia resolved to a blob URL
ResolvedItems(l) ==
    {k \in DOMAIN l.keyDoc.media :
        LET mediaItem == l.keyDoc.media[k]
            file == findFileInZip(l.archive.files, MediaFullPath(mediaItem.media_path))
        IN /\ mediaItem.hasDetails
           /\ mediaItem.media_path # ""
           /\ mediaItem.item_id # ""
           /\ file # None
           /\ file[1].kind = "blob"
           /\ file[1].readable}

\* the lists of mediaMap holding an entry for media_item k
ListsHolding(l, mediaMap, k) ==
    {id \in DOMAIN mediaMap :
        \E j \in DOMAIN mediaMap[id] :
            mediaMap[id][j].url = MediaFullPath(l.keyDoc.media[k].media_path)}

(***************************************************************************)
(* C21: in a returned model every resolved media item is attached to       *)
(* exactly one owner: the entity with its item id if the entity catalog    *)
(* has that id, otherwise the feature with that id if the feature catalog  *)
(* has it, otherwise nothing; never to both; and the keys of entityMedia   *)
(* and featureMedia are keys of the entity and feature catalogs.           *)
(***************************************************************************)
C21_MediaOwner ==
    \A i \in DOMAIN loads :
        loads[i].pc = "return" =>
            LET l == loads[i]
                data == l.data
            IN /\ DOMAIN data.entityMedia \subseteq DOMAIN data.allEntities
               /\ DOMAIN data.featureMedia \subseteq DOMAIN data.allFeatures
               /\ \A k \in DOMAIN l.keyDoc.media :
                    LET itemId == l.keyDoc.media[k].item_id
                        inEntities == ListsHolding(l, data.entityMedia, k)
                        inFeatures == ListsHolding(l, data.featureMedia, k)
                    IN IF k \notin ResolvedItems(l)
                       THEN inEntities = {} /\ inFeatures = {}
                       ELSE IF itemId \in DOMAIN data.allEntities
                       THEN inEntities = {itemId} /\ inFeatures = {}
                       ELSE IF itemId \in DOMAIN data.allFeatures
                       THEN inEntities = {} /\ inFeatures = {itemId}
                       ELSE inEntities = {} /\ inFeatures = {}
               /\ \A id \in DOMAIN data.entityMedia :
                    Len(data.entityMedia[id]) =
                        Cardinality({k \in ResolvedItems(l) : l.keyDoc.media[k].item_id = id})
               /\ \A id \in DOMAIN data.featureMedia :
                    Len(data.featureMedia[id]) =
                        Cardinality({k \in ResolvedItems(l) : l.keyDoc.media[k].item_id = id})

\* a resolved item whose id is both an entity and a feature, next to a resolved
\* item of a feature
C21_Witness ==
    \E i \in DOMAIN loads :
        /\ loads[i].pc = "return"
        /\ \E k \in ResolvedItems(loads[i]) :
            /\ loads[i].keyDoc.media[k].item_id \in DOMAIN loads[i].data.allEntities
            /\ loads[i].keyDoc.media[k].item_id \in DOMAIN loads[i].data.allFeatures
            /\ loads[i].keyDoc.media[k].item_id \in DOMAIN loads[i].data.entityMedia
        /\ loads[i].data.featureMedia # EmptyMap


(***************************************************************************)
(* C22: when a file is selected while an earlier load is in progress, then *)
(* once every load has finished the application shows the outcome of the   *)
(* most recent selection alone: its model and no error if it loaded, no    *)
(* model and its error if it failed.  In particular a model and an error   *)
(* never stand together once the loads are over.                           *)
(***************************************************************************)
C22_LatestSelectionWins ==
    (Len(loads) = 0 /\ lastSettled # NotSettled) =>
        /\ ~isLoading
        /\ (keyData # Null) = (error = NoError)


(***************************************************************************)
(* C23: after the chat history is cleared (by its button or by the         *)
(* selection of a file) no AI message answering a text sent before the     *)
(* clearing is appended: every AI message of the history comes after the   *)
(* user message it answers.                                                *)
(***************************************************************************)
C23_NoAnswerAfterClear ==
    \A k \in DOMAIN aiChatHistory :
        aiChatHistory[k].sender = "ai" =>
            \E j \in 1..(k - 1) :
                /\ aiChatHistory[j].sender = "user"
                /\ aiChatHistory[j].content = aiChatHistory[k].answers


\* the matches of the installed model under the first k chosen entries
MatchesOfFirst(k) == computeMatches(keyData, SubSeq(chosenFeatures, 1, k))

(***************************************************************************)
(* C24: adding a constraint never enlarges the match: for the constraint   *)
(* map C made of the first k chosen entries and its extension C' by the    *)
(* next entry, direct(C') is a subset of direct(C) and discarded(C) is a   *)
(* subset of discarded(C') united with indirect(C').                       *)
(***************************************************************************)
C24_AddingNarrows ==
    keyData # Null =>
        \A k \in 0..(Len(chosenFeatures) - 1) :
            /\ MatchesOfFirst(k + 1).directMatches \subseteq MatchesOfFirst(k).directMatches
            /\ MatchesOfFirst(k).discardedEntityIds \subseteq
                   (MatchesOfFirst(k + 1).discardedEntityIds
                        \cup MatchesOfFirst(k + 1).indirectMatches)

\* a first entry that leaves direct matches, indirect matches and discarded
\* entities, and a second entry that discards further entities
C24_Witness ==
    /\ keyData # Null
    /\ Len(chosenFeatures) = 2
    /\ MatchesOfFirst(1).directMatches # {}
    /\ MatchesOfFirst(1).indirectMatches # {}
    /\ MatchesOfFirst(1).discardedEntityIds # {}
    /\ MatchesOfFirst(2).directMatches # MatchesOfFirst(1).directMatches
    /\ MatchesOfFirst(2) = matches


\* the chosen map holding the ids and values of a list of feature matches
RECURSIVE ConstraintsOf(_)
ConstraintsOf(features) ==
    IF features = <<>> THEN <<>>
    ELSE LET featureMatch == features[Len(features)]
         IN MapPut(ConstraintsOf(SubSeq(features, 1, Len(features) - 1)), featureMatch.id,
                   IF featureMatch.value = None THEN BoolValue(TRUE)
                   ELSE StrValue(featureMatch.value[1]))

\* each entry on a numeric feature of the catalog carries a non-empty value
NumericHaveValues(features) ==
    \A i \in DOMAIN features :
        (/\ features[i].id \in DOMAIN keyData.allFeatures
         /\ keyData.allFeatures[features[i].id].type = "numeric")
            => (features[i].value # None /\ features[i].value[1] # <<>>)

DistinctIds(features) ==
    \A i, j \in DOMAIN features : features[i].id = features[j].id => i = j

\* findMatchingEntities and the memo of App agree on a list of feature matches
AssistantAgrees(features) ==
    LET found == findMatchingEntities(features, keyData)
    IN /\ found \subseteq {keyData.allEntities[id] : id \in AllEntityIds}
       /\ {entity.id : entity \in found}
              = computeMatches(keyData, ConstraintsOf(features)).directMatches

\* the lists of feature matches of the responses shown in the chat
ShownFeatureLists ==
    {aiChatHistory[k].data.features_used :
        k \in {j \in DOMAIN aiChatHistory : /\ aiChatHistory[j].sender = "ai"
                                            /\ aiChatHistory[j].aiType = "response"}}

\* C25 as claimed: for every list of feature matches whose numeric entries
\* carry a non-empty value, findMatchingEntities returns exactly the entities
\* that the main match computation has as direct matches for the same ids and
\* values.
C25_AssistantAgreesAnyList ==
    keyData # Null =>
        \A features \in ShownFeatureLists :
            NumericHaveValues(features) => AssistantAgrees(features)

\* C25 as amended: the same for the lists in which no feature id occurs
\* twice (a list is then a constraint map).
C25_AssistantAgrees ==
    keyData # Null =>
        \A features \in ShownFeatureLists :
            (NumericHaveValues(features) /\ DistinctIds(features)) => AssistantAgrees(features)

\* a shown list on the state and on the numeric feature that keeps one entity
\* of two
C25_Witness ==
    /\ keyData # Null
    /\ \E features \in ShownFeatureLists :
        /\ Len(features) = 2
        /\ DistinctIds(features)
        /\ NumericHaveValues(features)
        /\ \A i \in DOMAIN features : features[i].id \in DOMAIN keyData.allFeatures
        /\ Cardinality(findMatchingEntities(features, keyData)) = 1


\* the value parses as a number: a string that is not empty and that
\* parseFloat does not turn into NaN
ParsesAsNumber(value) ==
    ~value.isBool /\ value.s # <<>> /\ ~isNaN(parseFloat(value.s))

\* the entries of a chosen map under the given id
EntriesOf(map, id) == {map[i].value : i \in {j \in DOMAIN map : map[j].id = id}}

\* what a call updateFeature(id, value, isNumeric) leaves under id
ExpectedEntries(value, isNumeric) ==
    IF isNumeric
    THEN (IF ParsesAsNumber(value) THEN {value} ELSE {})
    ELSE (IF Truthy(value) THEN {BoolValue(TRUE)} ELSE {})

\* every entry is a state entry or a numeric entry that parses, one per id
ChosenValid(map) ==
    \A i \in DOMAIN map :
        /\ map[i].value = BoolValue(TRUE) \/ ParsesAsNumber(map[i].value)
        /\ \A j \in DOMAIN map : map[j].id = map[i].id => j = i

(***************************************************************************)
(* C26: after any sequence of updateFeature and resetKey calls every entry *)
(* of the chosen map is a state entry (true) or a numeric entry whose      *)
(* value parses as a number, one per id; a call of updateFeature leaves    *)
(* under its id the state entry when the value was truthy, the numeric     *)
(* value when it parses as a number, and nothing otherwise (an empty,      *)
(* boolean or unparseable numeric value removes the entry), and leaves the *)
(* other ids alone; resetKey leaves the map empty.                         *)
(***************************************************************************)
C26_ChosenMapValid ==
    [][/\ ChosenValid(chosenFeatures')
       /\ \A id \in ChosenIds, value \in ChosenUserInputs, isNumeric \in BOOLEAN :
            updateFeature(id, value, isNumeric) =>
                /\ EntriesOf(chosenFeatures', id) = ExpectedEntries(value, isNumeric)
                /\ \A other \in ChosenIds \ {id} :
                       EntriesOf(chosenFeatures', other) = EntriesOf(chosenFeatures, other)
       /\ resetKey => chosenFeatures' = <<>>]_vars

\* the state is ticked and the numeric feature holds "3a", which parseFloat
\* reads as 3
C26_Witness ==
    /\ Len(chosenFeatures) = 2
    /\ EntriesOf(chosenFeatures, "S1") = {BoolValue(TRUE)}
    /\ EntriesOf(chosenFeatures, "N1") = {StrValue(<<"3", "a">>)}


(***************************************************************************)
(* C27: whenever the ImageViewer renders a non-empty media list, its       *)
(* currentImageIndex is a valid index of that list, also in the render     *)
(* that follows a change of the media to a shorter list, before the effect *)
(* that resets the index has run.                                          *)
(***************************************************************************)
C27_IndexValid ==
    (ViewerMounted /\ Len(ViewerMedia) > 0)
        => imageViewer.currentImageIndex < Len(ViewerMedia)


(***************************************************************************)
(* C28: opening the lightbox saves the modal state it was opened from in   *)
(* underlyingModalState and keeps it while the lightbox is open; closing   *)
(* the lightbox puts exactly that state back (same type and id) and clears *)
(* the saved state; closing a modal while nothing is saved yields 'none';  *)
(* a saved state exists only under a lightbox and is never a lightbox.     *)
(***************************************************************************)
C28_LightboxRestores ==
    [][/\ (modalState.type # "lightbox" /\ modalState'.type = "lightbox")
            => underlyingModalState' = modalState
       /\ (modalState.type = "lightbox" /\ modalState'.type = "lightbox")
            => underlyingModalState' = underlyingModalState
       /\ (handleModalClose /\ modalState.type = "lightbox")
            => (modalState' = underlyingModalState /\ underlyingModalState' = Null)
       /\ ((handleModalClose \/ closePlain) /\ underlyingModalState = Null)
            => (modalState' = [type |-> "none"] /\ underlyingModalState' = Null)
       /\ underlyingModalState' # Null
            => (modalState'.type = "lightbox" /\ underlyingModalState'.type # "lightbox")
      ]_vars

\* the entity modal of E2 is back after its lightbox was closed: it is still
\* rendered from before and its Modal has not yet seen isOpen again
C28_Witness ==
    /\ modalState = [type |-> "entity", entityId |-> "E2"]
    /\ underlyingModalState = Null
    /\ modal.isRendered
    /\ modalEffectPending


(***************************************************************************)
(* C30: once Modal's effect has run for the current isOpen, an open modal  *)
(* is rendered and a visible modal is rendered (the timer of an earlier    *)
(* close is cancelled when the modal re-opens and never un-renders it);    *)
(* and a modal that is not open becomes un-rendered unless it is opened    *)
(* again.                                                                  *)
(***************************************************************************)
ModalSettled ==
    ~modalEffectPending
        => /\ EntityIsOpen => modal.isRendered
           /\ modal.isVisible => modal.isRendered

C30_ModalLifecycle ==
    /\ []ModalSettled
    /\ ~EntityIsOpen ~> (EntityIsOpen \/ ~modal.isRendered)

\* the effect has run for an open modal and its timer has fired: the modal is
\* rendered and visible with no timer left, after the user moved to the second
\* image of E2
C30_Witness ==
    /\ EntityIsOpen
    /\ ~modalEffectPending
    /\ modal.isRendered
    /\ modal.isVisible
    /\ modal.timers = {}
    /\ entityModal.seen = EntityDeps
    /\ entityModal.navigationHistory = <<>>
    /\ entityModal.activeEntityId = "E2"
    /\ imageViewer.currentImageIndex = 1


(***************************************************************************)
(* C29: while a non-empty search term is active in the panel (its effect   *)
(* has run for it), every node whose name contains the term, case          *)
(* ignored, is in matchingIds, and every group above such a node is in     *)
(* expandedNodes, so that the node is rendered.                            *)
(***************************************************************************)
C29_MatchesVisible ==
    (entitiesPanel.searchTerm # <<>> /\ ~searchEffectPending)
        => \A n \in NodesWithAncestors(PanelTree, {}) :
              includes(toLowerCase(Chars(n.name)), toLowerCase(entitiesPanel.searchTerm))
                  => /\ entitiesPanel.matchingIds # None
                     /\ n.id \in entitiesPanel.matchingIds[1]
                     /\ n.ancestors \subseteq expandedRemainingNodes
                     /\ n \in RenderedNodes

====
